---------------------------- MODULE Spec2Model ----------------------------
(* A model of the field-classification pipeline of excel-field-analyzer:       *)
(*   src/analyzer.py            FieldMappingManager, ExcelAnalyzer             *)
(*   src/scripts/ai_mapper.py   AIFieldMapper                                  *)
(*   src/scripts/mapping_validator.py   MappingValidator                       *)
(*                                                                             *)
(* Representation.  A source-language string (a column name, a dictionary      *)
(* phrase, a sample value) is the sequence of its Unicode code points, e.g.    *)
(* 保费 = <<20445, 36153>>.  A canonical (English) name is a TLA+ string.       *)
(* A Python dict is the sequence of its items in insertion order, because the  *)
(* code depends on that order (stable sorts, last-source-wins merge).          *)
EXTENDS Integers, Sequences, FiniteSets, TLC

VARIABLES
    files,               \* field_mappings/*.json in glob order: [name, config]
    combined_mappings,   \* FieldMappingManager.combined_mappings (ordered dict)
    phrase_to_token,     \* ExcelAnalyzer.phrase_to_token, the snapshot of __init__
    AI_MAPPER_AVAILABLE, \* module flag of analyzer.py, set by the import
    writable,            \* whether open(custom_file, 'w') succeeds
    pc,                  \* position of analyze_excel: ready (no call yet), built,
                         \* learned, done (returned), failed (returned success=False);
                         \* mapper, infer, alias, validator: the mapper, its
                         \* type inference, the tokenizer or the validator is used alone;
                         \* batch: batch_validate is used alone
    sheet_summary,       \* summaries[first_sheet] with the column's df values
    field_map,           \* field_map of analyze_excel
    unknown_fields,      \* unknown_fields of analyze_excel
    learned_mappings,    \* learned_mappings of analyze_excel
    first_map,           \* history: what the first build_field_mapping returned
    first_store,         \* history: combined_mappings at the first build
    af,                  \* a direct call of AIFieldMapper (analyze_field, _translate_keywords,
                         \* _infer_type_from_samples)
    ga,                  \* a direct call of ExcelAnalyzer.generate_alias_from_cn
    vm,                  \* a call of MappingValidator.validate_mapping
    bv                   \* a call of MappingValidator.batch_validate

vars == <<files, combined_mappings, phrase_to_token, AI_MAPPER_AVAILABLE, writable,
          pc, sheet_summary, field_map, unknown_fields, learned_mappings,
          first_map, first_store, af, ga, vm, bv>>

-----------------------------------------------------------------------------
(* Python str operations, on sequences of code points.                        *)

Range(f) == {f[i] : i \in DOMAIN f}

(* ph occurs in text at position i *)
OccursAt(ph, text, i) ==
    /\ i >= 1
    /\ i + Len(ph) - 1 <= Len(text)
    /\ \A k \in 1..Len(ph) : text[i + k - 1] = ph[k]

(* `ph in text` *)
Contains(ph, text) == \E i \in 1..(Len(text) - Len(ph) + 1) : OccursAt(ph, text, i)

(* text.find(ph) + 1; 0 when ph does not occur *)
Find(ph, text) ==
    IF Contains(ph, text)
    THEN CHOOSE i \in 1..(Len(text) - Len(ph) + 1) :
            /\ OccursAt(ph, text, i)
            /\ \A j \in 1..(i - 1) : ~OccursAt(ph, text, j)
    ELSE 0

(* text.replace(ph, '', 1) *)
RemoveFirst(ph, text) ==
    IF ~Contains(ph, text) THEN text
    ELSE LET i == Find(ph, text)
         IN  SubSeq(text, 1, i - 1) \o SubSeq(text, i + Len(ph), Len(text))

(* text.replace(ph, ''): every non-overlapping occurrence, left to right *)
RECURSIVE RemoveAll(_, _)
RemoveAll(ph, text) ==
    IF Len(ph) = 0 \/ ~Contains(ph, text) THEN text
    ELSE LET i == Find(ph, text)
         IN  SubSeq(text, 1, i - 1)
                \o RemoveAll(ph, SubSeq(text, i + Len(ph), Len(text)))

StartsWith(text, ph) == OccursAt(ph, text, 1)
EndsWith(text, ph)   == Len(ph) <= Len(text) /\ OccursAt(ph, text, Len(text) - Len(ph) + 1)

(* sorted(seq, key=key, reverse=True): Python's sort is stable, also with      *)
(* reverse=True, so items of equal key keep their order: an item's position is *)
(* one more than the number of items that have a larger key, or the same key   *)
(* and an earlier place.                                                       *)
SortedDescending(seq, keys) ==      \* keys[i] is the sort key of seq[i]
    LET n   == Len(seq)
        pos == [i \in 1..n |->
                   Cardinality({j \in 1..n : keys[j] > keys[i] \/ (keys[j] = keys[i] /\ j < i)}) + 1]
    IN  [r \in 1..n |-> seq[CHOOSE i \in 1..n : pos[i] = r]]

(* Python str operations on canonical names (TLA+ strings)                     *)
StrStartsWith(s, p) == Len(p) <= Len(s) /\ SubSeq(s, 1, Len(p)) = p
StrEndsWith(s, p)   == Len(p) <= Len(s) /\ SubSeq(s, Len(s) - Len(p) + 1, Len(s)) = p

(* '_'.join(tokens) *)
RECURSIVE Join(_)
Join(tokens) ==
    IF Len(tokens) = 0 THEN ""
    ELSE IF Len(tokens) = 1 THEN tokens[1]
    ELSE tokens[1] \o "_" \o Join(Tail(tokens))

-----------------------------------------------------------------------------
(* AIFieldMapper: the tables                                                   *)

(* The rule table as declared, ai_mapper.py:184-267. Each regular expression is
   written as the list of its alternatives: a literal that must occur in the name,
   with s = anchored at the start (^) and e = anchored at the end ($). A name is a
   sequence of Unicode code points; term is <<>> for None. *)
keyword_patterns_declared ==
  <<
    (* 186: 起期$ *)
    [decl |-> 1, alts |-> <<[s |-> FALSE, lit |-> <<36215, 26399>>, e |-> TRUE]>>,
     priority |-> 90, group |-> "time", dtype |-> "datetime", term |-> <<"start_date">>],
    (* 187: 止期$ *)
    [decl |-> 2, alts |-> <<[s |-> FALSE, lit |-> <<27490, 26399>>, e |-> TRUE]>>,
     priority |-> 90, group |-> "time", dtype |-> "datetime", term |-> <<"end_date">>],
    (* 188: 生效日 *)
    [decl |-> 3, alts |-> <<[s |-> FALSE, lit |-> <<29983, 25928, 26085>>, e |-> FALSE]>>,
     priority |-> 90, group |-> "time", dtype |-> "datetime", term |-> <<"effective_date">>],
    (* 189: 到期日 *)
    [decl |-> 4, alts |-> <<[s |-> FALSE, lit |-> <<21040, 26399, 26085>>, e |-> FALSE]>>,
     priority |-> 90, group |-> "time", dtype |-> "datetime", term |-> <<"expiration_date">>],
    (* 190: 确认时间 *)
    [decl |-> 5, alts |-> <<[s |-> FALSE, lit |-> <<30830, 35748, 26102, 38388>>, e |-> FALSE]>>,
     priority |-> 85, group |-> "time", dtype |-> "datetime", term |-> <<"confirmation_time">>],
    (* 191: (投保|签单|批改|退保|报案|出险)时间 *)
    [decl |-> 6, alts |-> <<[s |-> FALSE, lit |-> <<25237, 20445, 26102, 38388>>, e |-> FALSE], [s |-> FALSE, lit |-> <<31614, 21333, 26102, 38388>>, e |-> FALSE], [s |-> FALSE, lit |-> <<25209, 25913, 26102, 38388>>, e |-> FALSE], [s |-> FALSE, lit |-> <<36864, 20445, 26102, 38388>>, e |-> FALSE], [s |-> FALSE, lit |-> <<25253, 26696, 26102, 38388>>, e |-> FALSE], [s |-> FALSE, lit |-> <<20986, 38505, 26102, 38388>>, e |-> FALSE]>>,
     priority |-> 85, group |-> "time", dtype |-> "datetime", term |-> <<>>],
    (* 192: 时间$ *)
    [decl |-> 7, alts |-> <<[s |-> FALSE, lit |-> <<26102, 38388>>, e |-> TRUE]>>,
     priority |-> 80, group |-> "time", dtype |-> "datetime", term |-> <<"time">>],
    (* 193: 日期$ *)
    [decl |-> 8, alts |-> <<[s |-> FALSE, lit |-> <<26085, 26399>>, e |-> TRUE]>>,
     priority |-> 80, group |-> "time", dtype |-> "datetime", term |-> <<"date">>],
    (* 196: 保费$ *)
    [decl |-> 9, alts |-> <<[s |-> FALSE, lit |-> <<20445, 36153>>, e |-> TRUE]>>,
     priority |-> 85, group |-> "finance", dtype |-> "number", term |-> <<"premium">>],
    (* 197: (签单|商业险|交强险|批改|退保|实收)保费 *)
    [decl |-> 10, alts |-> <<[s |-> FALSE, lit |-> <<31614, 21333, 20445, 36153>>, e |-> FALSE], [s |-> FALSE, lit |-> <<21830, 19994, 38505, 20445, 36153>>, e |-> FALSE], [s |-> FALSE, lit |-> <<20132, 24378, 38505, 20445, 36153>>, e |-> FALSE], [s |-> FALSE, lit |-> <<25209, 25913, 20445, 36153>>, e |-> FALSE], [s |-> FALSE, lit |-> <<36864, 20445, 20445, 36153>>, e |-> FALSE], [s |-> FALSE, lit |-> <<23454, 25910, 20445, 36153>>, e |-> FALSE]>>,
     priority |-> 85, group |-> "finance", dtype |-> "number", term |-> <<>>],
    (* 200: 赔款$ *)
    [decl |-> 11, alts |-> <<[s |-> FALSE, lit |-> <<36180, 27454>>, e |-> TRUE]>>,
     priority |-> 85, group |-> "finance", dtype |-> "number", term |-> <<"claim_amount">>],
    (* 201: (总|案均|已决|未决)赔款 *)
    [decl |-> 12, alts |-> <<[s |-> FALSE, lit |-> <<24635, 36180, 27454>>, e |-> FALSE], [s |-> FALSE, lit |-> <<26696, 22343, 36180, 27454>>, e |-> FALSE], [s |-> FALSE, lit |-> <<24050, 20915, 36180, 27454>>, e |-> FALSE], [s |-> FALSE, lit |-> <<26410, 20915, 36180, 27454>>, e |-> FALSE]>>,
     priority |-> 85, group |-> "finance", dtype |-> "number", term |-> <<>>],
    (* 202: (出险|索赔)次数 *)
    [decl |-> 13, alts |-> <<[s |-> FALSE, lit |-> <<20986, 38505, 27425, 25968>>, e |-> FALSE], [s |-> FALSE, lit |-> <<32034, 36180, 27425, 25968>>, e |-> FALSE]>>,
     priority |-> 85, group |-> "finance", dtype |-> "number", term |-> <<"claim_count">>],
    (* 203: (出险|索赔)频度 *)
    [decl |-> 14, alts |-> <<[s |-> FALSE, lit |-> <<20986, 38505, 39057, 24230>>, e |-> FALSE], [s |-> FALSE, lit |-> <<32034, 36180, 39057, 24230>>, e |-> FALSE]>>,
     priority |-> 85, group |-> "finance", dtype |-> "number", term |-> <<"claim_frequency">>],
    (* 206: 手续费|佣金 *)
    [decl |-> 15, alts |-> <<[s |-> FALSE, lit |-> <<25163, 32493, 36153>>, e |-> FALSE], [s |-> FALSE, lit |-> <<20323, 37329>>, e |-> FALSE]>>,
     priority |-> 80, group |-> "finance", dtype |-> "number", term |-> <<"commission">>],
    (* 207: 费用(金额)?$ *)
    [decl |-> 16, alts |-> <<[s |-> FALSE, lit |-> <<36153, 29992, 37329, 39069>>, e |-> TRUE], [s |-> FALSE, lit |-> <<36153, 29992>>, e |-> TRUE]>>,
     priority |-> 80, group |-> "finance", dtype |-> "number", term |-> <<"fee">>],
    (* 208: (管理|服务)费 *)
    [decl |-> 17, alts |-> <<[s |-> FALSE, lit |-> <<31649, 29702, 36153>>, e |-> FALSE], [s |-> FALSE, lit |-> <<26381, 21153, 36153>>, e |-> FALSE]>>,
     priority |-> 80, group |-> "finance", dtype |-> "number", term |-> <<>>],
    (* 211: (费用|赔付|综合成本|变动成本)率 *)
    [decl |-> 18, alts |-> <<[s |-> FALSE, lit |-> <<36153, 29992, 29575>>, e |-> FALSE], [s |-> FALSE, lit |-> <<36180, 20184, 29575>>, e |-> FALSE], [s |-> FALSE, lit |-> <<32508, 21512, 25104, 26412, 29575>>, e |-> FALSE], [s |-> FALSE, lit |-> <<21464, 21160, 25104, 26412, 29575>>, e |-> FALSE]>>,
     priority |-> 80, group |-> "finance", dtype |-> "number", term |-> <<>>],
    (* 212: 比率|比例 *)
    [decl |-> 19, alts |-> <<[s |-> FALSE, lit |-> <<27604, 29575>>, e |-> FALSE], [s |-> FALSE, lit |-> <<27604, 20363>>, e |-> FALSE]>>,
     priority |-> 75, group |-> "finance", dtype |-> "number", term |-> <<"ratio">>],
    (* 215: (NCD|自主|渠道)系数 *)
    [decl |-> 20, alts |-> <<[s |-> FALSE, lit |-> <<78, 67, 68, 31995, 25968>>, e |-> FALSE], [s |-> FALSE, lit |-> <<33258, 20027, 31995, 25968>>, e |-> FALSE], [s |-> FALSE, lit |-> <<28192, 36947, 31995, 25968>>, e |-> FALSE]>>,
     priority |-> 80, group |-> "finance", dtype |-> "number", term |-> <<>>],
    (* 216: 折扣 *)
    [decl |-> 21, alts |-> <<[s |-> FALSE, lit |-> <<25240, 25187>>, e |-> FALSE]>>,
     priority |-> 75, group |-> "finance", dtype |-> "number", term |-> <<"discount">>],
    (* 219: 金额$ *)
    [decl |-> 22, alts |-> <<[s |-> FALSE, lit |-> <<37329, 39069>>, e |-> TRUE]>>,
     priority |-> 70, group |-> "finance", dtype |-> "number", term |-> <<"amount">>],
    (* 220: 价格 *)
    [decl |-> 23, alts |-> <<[s |-> FALSE, lit |-> <<20215, 26684>>, e |-> FALSE]>>,
     priority |-> 70, group |-> "finance", dtype |-> "number", term |-> <<"price">>],
    (* 223: [三四五]级机构 *)
    [decl |-> 24, alts |-> <<[s |-> FALSE, lit |-> <<19977, 32423, 26426, 26500>>, e |-> FALSE], [s |-> FALSE, lit |-> <<22235, 32423, 26426, 26500>>, e |-> FALSE], [s |-> FALSE, lit |-> <<20116, 32423, 26426, 26500>>, e |-> FALSE]>>,
     priority |-> 75, group |-> "organization", dtype |-> "string", term |-> <<>>],
    (* 224: (支|分)公司 *)
    [decl |-> 25, alts |-> <<[s |-> FALSE, lit |-> <<25903, 20844, 21496>>, e |-> FALSE], [s |-> FALSE, lit |-> <<20998, 20844, 21496>>, e |-> FALSE]>>,
     priority |-> 75, group |-> "organization", dtype |-> "string", term |-> <<>>],
    (* 225: 营业部|中心 *)
    [decl |-> 26, alts |-> <<[s |-> FALSE, lit |-> <<33829, 19994, 37096>>, e |-> FALSE], [s |-> FALSE, lit |-> <<20013, 24515>>, e |-> FALSE]>>,
     priority |-> 70, group |-> "organization", dtype |-> "string", term |-> <<>>],
    (* 226: 业务员|代理人?|经纪人? *)
    [decl |-> 27, alts |-> <<[s |-> FALSE, lit |-> <<19994, 21153, 21592>>, e |-> FALSE], [s |-> FALSE, lit |-> <<20195, 29702, 20154>>, e |-> FALSE], [s |-> FALSE, lit |-> <<20195, 29702>>, e |-> FALSE], [s |-> FALSE, lit |-> <<32463, 32426, 20154>>, e |-> FALSE], [s |-> FALSE, lit |-> <<32463, 32426>>, e |-> FALSE]>>,
     priority |-> 75, group |-> "organization", dtype |-> "string", term |-> <<>>],
    (* 227: 渠道 *)
    [decl |-> 28, alts |-> <<[s |-> FALSE, lit |-> <<28192, 36947>>, e |-> FALSE]>>,
     priority |-> 70, group |-> "organization", dtype |-> "string", term |-> <<"channel">>],
    (* 230: 车牌(号码?)? *)
    [decl |-> 29, alts |-> <<[s |-> FALSE, lit |-> <<36710, 29260, 21495, 30721>>, e |-> FALSE], [s |-> FALSE, lit |-> <<36710, 29260, 21495>>, e |-> FALSE], [s |-> FALSE, lit |-> <<36710, 29260>>, e |-> FALSE]>>,
     priority |-> 90, group |-> "vehicle", dtype |-> "string", term |-> <<"license_plate">>],
    (* 231: 车架号|VIN *)
    [decl |-> 30, alts |-> <<[s |-> FALSE, lit |-> <<36710, 26550, 21495>>, e |-> FALSE], [s |-> FALSE, lit |-> <<86, 73, 78>>, e |-> FALSE]>>,
     priority |-> 90, group |-> "vehicle", dtype |-> "string", term |-> <<"vin">>],
    (* 232: 发动机号 *)
    [decl |-> 31, alts |-> <<[s |-> FALSE, lit |-> <<21457, 21160, 26426, 21495>>, e |-> FALSE]>>,
     priority |-> 85, group |-> "vehicle", dtype |-> "string", term |-> <<"engine_number">>],
    (* 233: 车型|厂牌型号 *)
    [decl |-> 32, alts |-> <<[s |-> FALSE, lit |-> <<36710, 22411>>, e |-> FALSE], [s |-> FALSE, lit |-> <<21378, 29260, 22411, 21495>>, e |-> FALSE]>>,
     priority |-> 75, group |-> "vehicle", dtype |-> "string", term |-> <<"vehicle_model">>],
    (* 234: 品牌 *)
    [decl |-> 33, alts |-> <<[s |-> FALSE, lit |-> <<21697, 29260>>, e |-> FALSE]>>,
     priority |-> 70, group |-> "vehicle", dtype |-> "string", term |-> <<"brand">>],
    (* 235: 新旧车 *)
    [decl |-> 34, alts |-> <<[s |-> FALSE, lit |-> <<26032, 26087, 36710>>, e |-> FALSE]>>,
     priority |-> 75, group |-> "vehicle", dtype |-> "string", term |-> <<"vehicle_age_category">>],
    (* 236: 车龄 *)
    [decl |-> 35, alts |-> <<[s |-> FALSE, lit |-> <<36710, 40836>>, e |-> FALSE]>>,
     priority |-> 75, group |-> "vehicle", dtype |-> "number", term |-> <<"vehicle_age">>],
    (* 237: 座位数|吨位|排量|功率 *)
    [decl |-> 36, alts |-> <<[s |-> FALSE, lit |-> <<24231, 20301, 25968>>, e |-> FALSE], [s |-> FALSE, lit |-> <<21544, 20301>>, e |-> FALSE], [s |-> FALSE, lit |-> <<25490, 37327>>, e |-> FALSE], [s |-> FALSE, lit |-> <<21151, 29575>>, e |-> FALSE]>>,
     priority |-> 70, group |-> "vehicle", dtype |-> "number", term |-> <<>>],
    (* 240: 险种|险别|险类 *)
    [decl |-> 37, alts |-> <<[s |-> FALSE, lit |-> <<38505, 31181>>, e |-> FALSE], [s |-> FALSE, lit |-> <<38505, 21035>>, e |-> FALSE], [s |-> FALSE, lit |-> <<38505, 31867>>, e |-> FALSE]>>,
     priority |-> 80, group |-> "product", dtype |-> "string", term |-> <<>>],
    (* 241: 产品(名称)? *)
    [decl |-> 38, alts |-> <<[s |-> FALSE, lit |-> <<20135, 21697, 21517, 31216>>, e |-> FALSE], [s |-> FALSE, lit |-> <<20135, 21697>>, e |-> FALSE]>>,
     priority |-> 75, group |-> "product", dtype |-> "string", term |-> <<"product">>],
    (* 242: 保额|保险金额|限额 *)
    [decl |-> 39, alts |-> <<[s |-> FALSE, lit |-> <<20445, 39069>>, e |-> FALSE], [s |-> FALSE, lit |-> <<20445, 38505, 37329, 39069>>, e |-> FALSE], [s |-> FALSE, lit |-> <<38480, 39069>>, e |-> FALSE]>>,
     priority |-> 75, group |-> "product", dtype |-> "number", term |-> <<>>],
    (* 245: 投保人|被保险人 *)
    [decl |-> 40, alts |-> <<[s |-> FALSE, lit |-> <<25237, 20445, 20154>>, e |-> FALSE], [s |-> FALSE, lit |-> <<34987, 20445, 38505, 20154>>, e |-> FALSE]>>,
     priority |-> 80, group |-> "customer", dtype |-> "string", term |-> <<>>],
    (* 246: 客户(名称|类型)? *)
    [decl |-> 41, alts |-> <<[s |-> FALSE, lit |-> <<23458, 25143, 21517, 31216>>, e |-> FALSE], [s |-> FALSE, lit |-> <<23458, 25143, 31867, 22411>>, e |-> FALSE], [s |-> FALSE, lit |-> <<23458, 25143>>, e |-> FALSE]>>,
     priority |-> 75, group |-> "customer", dtype |-> "string", term |-> <<>>],
    (* 247: 证件(号码|类型) *)
    [decl |-> 42, alts |-> <<[s |-> FALSE, lit |-> <<35777, 20214, 21495, 30721>>, e |-> FALSE], [s |-> FALSE, lit |-> <<35777, 20214, 31867, 22411>>, e |-> FALSE]>>,
     priority |-> 75, group |-> "customer", dtype |-> "string", term |-> <<>>],
    (* 248: 联系电话|电话 *)
    [decl |-> 43, alts |-> <<[s |-> FALSE, lit |-> <<32852, 31995, 30005, 35805>>, e |-> FALSE], [s |-> FALSE, lit |-> <<30005, 35805>>, e |-> FALSE]>>,
     priority |-> 70, group |-> "customer", dtype |-> "string", term |-> <<"phone">>],
    (* 249: 地址 *)
    [decl |-> 44, alts |-> <<[s |-> FALSE, lit |-> <<22320, 22336>>, e |-> FALSE]>>,
     priority |-> 70, group |-> "customer", dtype |-> "string", term |-> <<"address">>],
    (* 252: ^是否 *)
    [decl |-> 45, alts |-> <<[s |-> TRUE, lit |-> <<26159, 21542>>, e |-> FALSE]>>,
     priority |-> 85, group |-> "flag", dtype |-> "boolean", term |-> <<>>],
    (* 253: 标识$|标志$ *)
    [decl |-> 46, alts |-> <<[s |-> FALSE, lit |-> <<26631, 35782>>, e |-> TRUE], [s |-> FALSE, lit |-> <<26631, 24535>>, e |-> TRUE]>>,
     priority |-> 75, group |-> "flag", dtype |-> "boolean", term |-> <<"flag">>],
    (* 256: (保单|业务|承保|理赔)状态 *)
    [decl |-> 47, alts |-> <<[s |-> FALSE, lit |-> <<20445, 21333, 29366, 24577>>, e |-> FALSE], [s |-> FALSE, lit |-> <<19994, 21153, 29366, 24577>>, e |-> FALSE], [s |-> FALSE, lit |-> <<25215, 20445, 29366, 24577>>, e |-> FALSE], [s |-> FALSE, lit |-> <<29702, 36180, 29366, 24577>>, e |-> FALSE]>>,
     priority |-> 75, group |-> "general", dtype |-> "string", term |-> <<>>],
    (* 257: 状态$ *)
    [decl |-> 48, alts |-> <<[s |-> FALSE, lit |-> <<29366, 24577>>, e |-> TRUE]>>,
     priority |-> 65, group |-> "general", dtype |-> "string", term |-> <<"status">>],
    (* 260: 评分$ *)
    [decl |-> 49, alts |-> <<[s |-> FALSE, lit |-> <<35780, 20998>>, e |-> TRUE]>>,
     priority |-> 70, group |-> "general", dtype |-> "number", term |-> <<"score">>],
    (* 261: 等级$ *)
    [decl |-> 50, alts |-> <<[s |-> FALSE, lit |-> <<31561, 32423>>, e |-> TRUE]>>,
     priority |-> 70, group |-> "general", dtype |-> "string", term |-> <<"level">>],
    (* 264: 类型$|种类$ *)
    [decl |-> 51, alts |-> <<[s |-> FALSE, lit |-> <<31867, 22411>>, e |-> TRUE], [s |-> FALSE, lit |-> <<31181, 31867>>, e |-> TRUE]>>,
     priority |-> 60, group |-> "general", dtype |-> "string", term |-> <<"type">>],
    (* 265: 编号$|号$ *)
    [decl |-> 52, alts |-> <<[s |-> FALSE, lit |-> <<32534, 21495>>, e |-> TRUE], [s |-> FALSE, lit |-> <<21495>>, e |-> TRUE]>>,
     priority |-> 60, group |-> "general", dtype |-> "string", term |-> <<"number">>],
    (* 266: 名称$ *)
    [decl |-> 53, alts |-> <<[s |-> FALSE, lit |-> <<21517, 31216>>, e |-> TRUE]>>,
     priority |-> 55, group |-> "general", dtype |-> "string", term |-> <<"name">>]
  >>

(* The keyword dictionary of _translate_keywords in declaration (dict) order,
   ai_mapper.py:292-449. *)
keyword_map ==
  <<
    [ph |-> <<20445, 21333, 21495>>, tk |-> "policy_number"],  \* 294: 保单号
    [ph |-> <<25209, 21333, 21495>>, tk |-> "endorsement_number"],  \* 295: 批单号
    [ph |-> <<21333, 21495>>, tk |-> "number"],  \* 296: 单号
    [ph |-> <<32534, 21495>>, tk |-> "code"],  \* 297: 编号
    [ph |-> <<31614, 21333, 20445, 36153>>, tk |-> "written_premium"],  \* 300: 签单保费
    [ph |-> <<21830, 19994, 38505, 20445, 36153>>, tk |-> "commercial_premium"],  \* 301: 商业险保费
    [ph |-> <<20132, 24378, 38505, 20445, 36153>>, tk |-> "compulsory_premium"],  \* 302: 交强险保费
    [ph |-> <<20445, 36153>>, tk |-> "premium"],  \* 303: 保费
    [ph |-> <<36180, 27454>>, tk |-> "claim"],  \* 306: 赔款
    [ph |-> <<26696, 22343>>, tk |-> "average"],  \* 307: 案均
    [ph |-> <<24635>>, tk |-> "total"],  \* 308: 总
    [ph |-> <<24050, 20915>>, tk |-> "paid"],  \* 309: 已决
    [ph |-> <<26410, 20915>>, tk |-> "outstanding"],  \* 310: 未决
    [ph |-> <<20986, 38505>>, tk |-> "claim"],  \* 311: 出险
    [ph |-> <<32034, 36180>>, tk |-> "claim"],  \* 312: 索赔
    [ph |-> <<25163, 32493, 36153>>, tk |-> "commission"],  \* 315: 手续费
    [ph |-> <<20323, 37329>>, tk |-> "commission"],  \* 316: 佣金
    [ph |-> <<36153, 29992>>, tk |-> "fee"],  \* 317: 费用
    [ph |-> <<31649, 29702, 36153>>, tk |-> "admin_fee"],  \* 318: 管理费
    [ph |-> <<36153, 29992, 29575>>, tk |-> "expense_ratio"],  \* 321: 费用率
    [ph |-> <<36180, 20184, 29575>>, tk |-> "loss_ratio"],  \* 322: 赔付率
    [ph |-> <<25104, 26412, 29575>>, tk |-> "cost_ratio"],  \* 323: 成本率
    [ph |-> <<32508, 21512>>, tk |-> "combined"],  \* 324: 综合
    [ph |-> <<21464, 21160>>, tk |-> "variable"],  \* 325: 变动
    [ph |-> <<29575>>, tk |-> "ratio"],  \* 326: 率
    [ph |-> <<27604, 29575>>, tk |-> "ratio"],  \* 327: 比率
    [ph |-> <<27604, 20363>>, tk |-> "ratio"],  \* 328: 比例
    [ph |-> <<78, 67, 68, 31995, 25968>>, tk |-> "ncd_factor"],  \* 331: NCD系数
    [ph |-> <<31995, 25968>>, tk |-> "factor"],  \* 332: 系数
    [ph |-> <<25240, 25187>>, tk |-> "discount"],  \* 333: 折扣
    [ph |-> <<20248, 24800>>, tk |-> "discount"],  \* 334: 优惠
    [ph |-> <<19977, 32423, 26426, 26500>>, tk |-> "level_3_org"],  \* 337: 三级机构
    [ph |-> <<22235, 32423, 26426, 26500>>, tk |-> "level_4_org"],  \* 338: 四级机构
    [ph |-> <<20116, 32423, 26426, 26500>>, tk |-> "level_5_org"],  \* 339: 五级机构
    [ph |-> <<26426, 26500>>, tk |-> "organization"],  \* 340: 机构
    [ph |-> <<25903, 20844, 21496>>, tk |-> "branch"],  \* 341: 支公司
    [ph |-> <<20998, 20844, 21496>>, tk |-> "division"],  \* 342: 分公司
    [ph |-> <<33829, 19994, 37096>>, tk |-> "sales_office"],  \* 343: 营业部
    [ph |-> <<20013, 24515>>, tk |-> "center"],  \* 344: 中心
    [ph |-> <<19994, 21153, 21592>>, tk |-> "agent"],  \* 345: 业务员
    [ph |-> <<20195, 29702, 20154>>, tk |-> "agent"],  \* 346: 代理人
    [ph |-> <<20195, 29702>>, tk |-> "agent"],  \* 347: 代理
    [ph |-> <<32463, 32426, 20154>>, tk |-> "broker"],  \* 348: 经纪人
    [ph |-> <<32463, 32426>>, tk |-> "broker"],  \* 349: 经纪
    [ph |-> <<28192, 36947>>, tk |-> "channel"],  \* 350: 渠道
    [ph |-> <<38144, 21806>>, tk |-> "sales"],  \* 351: 销售
    [ph |-> <<32456, 31471>>, tk |-> "terminal"],  \* 352: 终端
    [ph |-> <<26469, 28304>>, tk |-> "source"],  \* 353: 来源
    [ph |-> <<36710, 29260>>, tk |-> "license_plate"],  \* 356: 车牌
    [ph |-> <<36710, 26550, 21495>>, tk |-> "vin"],  \* 357: 车架号
    [ph |-> <<21457, 21160, 26426, 21495>>, tk |-> "engine_number"],  \* 358: 发动机号
    [ph |-> <<36710, 22411>>, tk |-> "vehicle_model"],  \* 359: 车型
    [ph |-> <<21378, 29260>>, tk |-> "make"],  \* 360: 厂牌
    [ph |-> <<22411, 21495>>, tk |-> "model"],  \* 361: 型号
    [ph |-> <<21697, 29260>>, tk |-> "brand"],  \* 362: 品牌
    [ph |-> <<26032, 26087, 36710>>, tk |-> "vehicle_age_category"],  \* 363: 新旧车
    [ph |-> <<36710, 40836>>, tk |-> "vehicle_age"],  \* 364: 车龄
    [ph |-> <<24231, 20301, 25968>>, tk |-> "seat_count"],  \* 365: 座位数
    [ph |-> <<21544, 20301>>, tk |-> "tonnage"],  \* 366: 吨位
    [ph |-> <<25490, 37327>>, tk |-> "displacement"],  \* 367: 排量
    [ph |-> <<21151, 29575>>, tk |-> "power"],  \* 368: 功率
    [ph |-> <<25972, 22791, 36136, 37327>>, tk |-> "curb_weight"],  \* 369: 整备质量
    [ph |-> <<36141, 32622, 20215>>, tk |-> "purchase_price"],  \* 370: 购置价
    [ph |-> <<26032, 36710>>, tk |-> "new_vehicle"],  \* 371: 新车
    [ph |-> <<36710, 36742>>, tk |-> "vehicle"],  \* 372: 车辆
    [ph |-> <<36710>>, tk |-> "vehicle"],  \* 373: 车
    [ph |-> <<38505, 31181>>, tk |-> "coverage_type"],  \* 376: 险种
    [ph |-> <<38505, 21035>>, tk |-> "coverage"],  \* 377: 险别
    [ph |-> <<38505, 31867>>, tk |-> "insurance_class"],  \* 378: 险类
    [ph |-> <<21830, 19994, 38505>>, tk |-> "commercial"],  \* 379: 商业险
    [ph |-> <<20132, 24378, 38505>>, tk |-> "compulsory"],  \* 380: 交强险
    [ph |-> <<20135, 21697>>, tk |-> "product"],  \* 381: 产品
    [ph |-> <<20445, 39069>>, tk |-> "coverage_amount"],  \* 382: 保额
    [ph |-> <<20445, 38505, 37329, 39069>>, tk |-> "insured_amount"],  \* 383: 保险金额
    [ph |-> <<37329, 39069>>, tk |-> "amount"],  \* 384: 金额
    [ph |-> <<38480, 39069>>, tk |-> "limit"],  \* 385: 限额
    [ph |-> <<25237, 20445, 20154>>, tk |-> "policyholder"],  \* 388: 投保人
    [ph |-> <<34987, 20445, 38505, 20154>>, tk |-> "insured"],  \* 389: 被保险人
    [ph |-> <<23458, 25143>>, tk |-> "customer"],  \* 390: 客户
    [ph |-> <<35777, 20214, 21495>>, tk |-> "id_number"],  \* 391: 证件号
    [ph |-> <<35777, 20214>>, tk |-> "id"],  \* 392: 证件
    [ph |-> <<30005, 35805>>, tk |-> "phone"],  \* 393: 电话
    [ph |-> <<22320, 22336>>, tk |-> "address"],  \* 394: 地址
    [ph |-> <<20445, 38505, 36215, 26399>>, tk |-> "policy_start_date"],  \* 397: 保险起期
    [ph |-> <<20445, 38505, 27490, 26399>>, tk |-> "policy_end_date"],  \* 398: 保险止期
    [ph |-> <<36215, 26399>>, tk |-> "start_date"],  \* 399: 起期
    [ph |-> <<27490, 26399>>, tk |-> "end_date"],  \* 400: 止期
    [ph |-> <<29983, 25928, 26085, 26399>>, tk |-> "effective_date"],  \* 401: 生效日期
    [ph |-> <<21040, 26399, 26085, 26399>>, tk |-> "expiration_date"],  \* 402: 到期日期
    [ph |-> <<30830, 35748, 26102, 38388>>, tk |-> "confirmation_time"],  \* 403: 确认时间
    [ph |-> <<25237, 20445, 26102, 38388>>, tk |-> "application_time"],  \* 404: 投保时间
    [ph |-> <<31614, 21333, 26102, 38388>>, tk |-> "issuance_time"],  \* 405: 签单时间
    [ph |-> <<25209, 25913, 26102, 38388>>, tk |-> "endorsement_time"],  \* 406: 批改时间
    [ph |-> <<36864, 20445, 26102, 38388>>, tk |-> "cancellation_time"],  \* 407: 退保时间
    [ph |-> <<25253, 26696, 26102, 38388>>, tk |-> "report_time"],  \* 408: 报案时间
    [ph |-> <<21047, 26032, 26102, 38388>>, tk |-> "refresh_time"],  \* 409: 刷新时间
    [ph |-> <<26102, 38388>>, tk |-> "time"],  \* 410: 时间
    [ph |-> <<26085, 26399>>, tk |-> "date"],  \* 411: 日期
    [ph |-> <<25237, 20445>>, tk |-> "application"],  \* 412: 投保
    [ph |-> <<31614, 21333>>, tk |-> "issuance"],  \* 413: 签单
    [ph |-> <<25209, 25913>>, tk |-> "endorsement"],  \* 414: 批改
    [ph |-> <<36864, 20445>>, tk |-> "cancellation"],  \* 415: 退保
    [ph |-> <<25253, 26696>>, tk |-> "report"],  \* 416: 报案
    [ph |-> <<21047, 26032>>, tk |-> "refresh"],  \* 417: 刷新
    [ph |-> <<30830, 35748>>, tk |-> "confirmation"],  \* 418: 确认
    [ph |-> <<26159, 21542>>, tk |-> "is"],  \* 421: 是否
    [ph |-> <<32493, 20445>>, tk |-> "renewal"],  \* 422: 续保
    [ph |-> <<36716, 20445>>, tk |-> "conversion"],  \* 423: 转保
    [ph |-> <<26032, 33021, 28304>>, tk |-> "new_energy"],  \* 424: 新能源
    [ph |-> <<36807, 25143>>, tk |-> "transferred"],  \* 425: 过户
    [ph |-> <<32593, 32422, 36710>>, tk |-> "ride_hailing"],  \* 426: 网约车
    [ph |-> <<33829, 19994>>, tk |-> "commercial"],  \* 427: 营业
    [ph |-> <<26631, 35782>>, tk |-> "flag"],  \* 428: 标识
    [ph |-> <<26631, 24535>>, tk |-> "flag"],  \* 429: 标志
    [ph |-> <<29366, 24577>>, tk |-> "status"],  \* 432: 状态
    [ph |-> <<20445, 21333>>, tk |-> "policy"],  \* 433: 保单
    [ph |-> <<19994, 21153>>, tk |-> "business"],  \* 434: 业务
    [ph |-> <<25215, 20445>>, tk |-> "underwriting"],  \* 435: 承保
    [ph |-> <<29702, 36180>>, tk |-> "claim"],  \* 436: 理赔
    [ph |-> <<35780, 20998>>, tk |-> "score"],  \* 439: 评分
    [ph |-> <<31561, 32423>>, tk |-> "level"],  \* 440: 等级
    [ph |-> <<39118, 38505>>, tk |-> "risk"],  \* 441: 风险
    [ph |-> <<31867, 22411>>, tk |-> "type"],  \* 442: 类型
    [ph |-> <<31181, 31867>>, tk |-> "category"],  \* 443: 种类
    [ph |-> <<21517, 31216>>, tk |-> "name"],  \* 444: 名称
    [ph |-> <<27425, 25968>>, tk |-> "count"],  \* 445: 次数
    [ph |-> <<39057, 24230>>, tk |-> "frequency"],  \* 446: 频度
    [ph |-> <<25968, 37327>>, tk |-> "quantity"],  \* 447: 数量
    [ph |-> <<31508, 25968>>, tk |-> "count"]  \* 448: 笔数
  >>

(* The exact-match table, ai_mapper.py:32-178, in dict order (a key written twice
   in the literal keeps its first position and its last value). *)
exact_mappings ==
  <<
    [key |-> <<20445, 21333, 21495>>, en_name |-> "policy_number", group |-> "policy", dtype |-> "string"],  \* 34: 保单号
    [key |-> <<20445, 38505, 21333, 21495>>, en_name |-> "policy_number", group |-> "policy", dtype |-> "string"],  \* 35: 保险单号
    [key |-> <<25209, 21333, 21495>>, en_name |-> "endorsement_number", group |-> "policy", dtype |-> "string"],  \* 36: 批单号
    [key |-> <<25237, 20445, 21333, 21495>>, en_name |-> "application_number", group |-> "policy", dtype |-> "string"],  \* 37: 投保单号
    [key |-> <<20445, 36153>>, en_name |-> "premium", group |-> "finance", dtype |-> "number"],  \* 40: 保费
    [key |-> <<31614, 21333, 20445, 36153>>, en_name |-> "written_premium", group |-> "finance", dtype |-> "number"],  \* 41: 签单保费
    [key |-> <<21830, 19994, 38505, 20445, 36153>>, en_name |-> "commercial_premium", group |-> "finance", dtype |-> "number"],  \* 42: 商业险保费
    [key |-> <<20132, 24378, 38505, 20445, 36153>>, en_name |-> "compulsory_premium", group |-> "finance", dtype |-> "number"],  \* 43: 交强险保费
    [key |-> <<25209, 25913, 20445, 36153>>, en_name |-> "endorsement_premium", group |-> "finance", dtype |-> "number"],  \* 44: 批改保费
    [key |-> <<36864, 20445, 20445, 36153>>, en_name |-> "refund_premium", group |-> "finance", dtype |-> "number"],  \* 45: 退保保费
    [key |-> <<23454, 25910, 20445, 36153>>, en_name |-> "earned_premium", group |-> "finance", dtype |-> "number"],  \* 46: 实收保费
    [key |-> <<78, 67, 68, 20445, 36153>>, en_name |-> "ncd_premium", group |-> "finance", dtype |-> "number"],  \* 47: NCD保费
    [key |-> <<78, 67, 68, 22522, 20934, 20445, 36153>>, en_name |-> "ncd_base_premium", group |-> "finance", dtype |-> "number"],  \* 48: NCD基准保费
    [key |-> <<36180, 27454>>, en_name |-> "claim_amount", group |-> "finance", dtype |-> "number"],  \* 51: 赔款
    [key |-> <<24635, 36180, 27454>>, en_name |-> "total_claims", group |-> "finance", dtype |-> "number"],  \* 52: 总赔款
    [key |-> <<26696, 22343, 36180, 27454>>, en_name |-> "average_claim", group |-> "finance", dtype |-> "number"],  \* 53: 案均赔款
    [key |-> <<24050, 20915, 36180, 27454>>, en_name |-> "paid_claims", group |-> "finance", dtype |-> "number"],  \* 54: 已决赔款
    [key |-> <<26410, 20915, 36180, 27454>>, en_name |-> "outstanding_claims", group |-> "finance", dtype |-> "number"],  \* 55: 未决赔款
    [key |-> <<26696, 20214, 25968>>, en_name |-> "claim_count", group |-> "finance", dtype |-> "number"],  \* 56: 案件数
    [key |-> <<20986, 38505, 27425, 25968>>, en_name |-> "claim_frequency", group |-> "finance", dtype |-> "number"],  \* 57: 出险次数
    [key |-> <<20986, 38505, 39057, 24230>>, en_name |-> "claim_frequency", group |-> "finance", dtype |-> "number"],  \* 58: 出险频度
    [key |-> <<25163, 32493, 36153>>, en_name |-> "commission", group |-> "finance", dtype |-> "number"],  \* 61: 手续费
    [key |-> <<20323, 37329>>, en_name |-> "commission", group |-> "finance", dtype |-> "number"],  \* 62: 佣金
    [key |-> <<36153, 29992>>, en_name |-> "fee", group |-> "finance", dtype |-> "number"],  \* 63: 费用
    [key |-> <<24635, 36153, 29992>>, en_name |-> "total_fee", group |-> "finance", dtype |-> "number"],  \* 64: 总费用
    [key |-> <<36153, 29992, 37329, 39069>>, en_name |-> "fee_amount", group |-> "finance", dtype |-> "number"],  \* 65: 费用金额
    [key |-> <<31649, 29702, 36153>>, en_name |-> "admin_fee", group |-> "finance", dtype |-> "number"],  \* 66: 管理费
    [key |-> <<36153, 29992, 29575>>, en_name |-> "expense_ratio", group |-> "finance", dtype |-> "number"],  \* 69: 费用率
    [key |-> <<36180, 20184, 29575>>, en_name |-> "loss_ratio", group |-> "finance", dtype |-> "number"],  \* 70: 赔付率
    [key |-> <<32508, 21512, 25104, 26412, 29575>>, en_name |-> "combined_ratio", group |-> "finance", dtype |-> "number"],  \* 71: 综合成本率
    [key |-> <<21464, 21160, 25104, 26412, 29575>>, en_name |-> "variable_cost_ratio", group |-> "finance", dtype |-> "number"],  \* 72: 变动成本率
    [key |-> <<20323, 37329, 29575>>, en_name |-> "commission_rate", group |-> "finance", dtype |-> "number"],  \* 73: 佣金率
    [key |-> <<25240, 25187, 29575>>, en_name |-> "discount_rate", group |-> "finance", dtype |-> "number"],  \* 74: 折扣率
    [key |-> <<36153, 29575>>, en_name |-> "rate", group |-> "finance", dtype |-> "number"],  \* 75: 费率
    [key |-> <<78, 67, 68, 31995, 25968>>, en_name |-> "ncd_factor", group |-> "finance", dtype |-> "number"],  \* 78: NCD系数
    [key |-> <<33258, 20027, 31995, 25968>>, en_name |-> "autonomous_factor", group |-> "finance", dtype |-> "number"],  \* 79: 自主系数
    [key |-> <<28192, 36947, 31995, 25968>>, en_name |-> "channel_factor", group |-> "finance", dtype |-> "number"],  \* 80: 渠道系数
    [key |-> <<25240, 25187>>, en_name |-> "discount", group |-> "finance", dtype |-> "number"],  \* 81: 折扣
    [key |-> <<20248, 24800, 37329, 39069>>, en_name |-> "discount_amount", group |-> "finance", dtype |-> "number"],  \* 82: 优惠金额
    [key |-> <<26426, 26500>>, en_name |-> "organization", group |-> "organization", dtype |-> "string"],  \* 85: 机构
    [key |-> <<19977, 32423, 26426, 26500>>, en_name |-> "level_3_organization", group |-> "organization", dtype |-> "string"],  \* 86: 三级机构
    [key |-> <<22235, 32423, 26426, 26500>>, en_name |-> "level_4_organization", group |-> "organization", dtype |-> "string"],  \* 87: 四级机构
    [key |-> <<20116, 32423, 26426, 26500>>, en_name |-> "level_5_organization", group |-> "organization", dtype |-> "string"],  \* 88: 五级机构
    [key |-> <<25903, 20844, 21496>>, en_name |-> "branch", group |-> "organization", dtype |-> "string"],  \* 89: 支公司
    [key |-> <<20998, 20844, 21496>>, en_name |-> "division", group |-> "organization", dtype |-> "string"],  \* 90: 分公司
    [key |-> <<20013, 24515, 25903, 20844, 21496>>, en_name |-> "central_branch", group |-> "organization", dtype |-> "string"],  \* 91: 中心支公司
    [key |-> <<33829, 19994, 37096>>, en_name |-> "sales_office", group |-> "organization", dtype |-> "string"],  \* 92: 营业部
    [key |-> <<19994, 21153, 21592>>, en_name |-> "agent", group |-> "organization", dtype |-> "string"],  \* 95: 业务员
    [key |-> <<20195, 29702, 20154>>, en_name |-> "agent", group |-> "organization", dtype |-> "string"],  \* 96: 代理人
    [key |-> <<32463, 32426, 20154>>, en_name |-> "broker", group |-> "organization", dtype |-> "string"],  \* 97: 经纪人
    [key |-> <<28192, 36947>>, en_name |-> "channel", group |-> "organization", dtype |-> "string"],  \* 98: 渠道
    [key |-> <<38144, 21806, 28192, 36947>>, en_name |-> "sales_channel", group |-> "organization", dtype |-> "string"],  \* 99: 销售渠道
    [key |-> <<32456, 31471, 26469, 28304>>, en_name |-> "terminal_source", group |-> "organization", dtype |-> "string"],  \* 100: 终端来源
    [key |-> <<36710, 29260, 21495>>, en_name |-> "license_plate", group |-> "vehicle", dtype |-> "string"],  \* 103: 车牌号
    [key |-> <<36710, 29260, 21495, 30721>>, en_name |-> "license_plate", group |-> "vehicle", dtype |-> "string"],  \* 104: 车牌号码
    [key |-> <<36710, 26550, 21495>>, en_name |-> "vin", group |-> "vehicle", dtype |-> "string"],  \* 105: 车架号
    [key |-> <<21457, 21160, 26426, 21495>>, en_name |-> "engine_number", group |-> "vehicle", dtype |-> "string"],  \* 106: 发动机号
    [key |-> <<36710, 22411>>, en_name |-> "vehicle_model", group |-> "vehicle", dtype |-> "string"],  \* 107: 车型
    [key |-> <<21378, 29260, 22411, 21495>>, en_name |-> "make_model", group |-> "vehicle", dtype |-> "string"],  \* 108: 厂牌型号
    [key |-> <<21697, 29260>>, en_name |-> "brand", group |-> "vehicle", dtype |-> "string"],  \* 109: 品牌
    [key |-> <<36710, 36742, 31181, 31867>>, en_name |-> "vehicle_type", group |-> "vehicle", dtype |-> "string"],  \* 110: 车辆种类
    [key |-> <<20351, 29992, 24615, 36136>>, en_name |-> "use_nature", group |-> "vehicle", dtype |-> "string"],  \* 111: 使用性质
    [key |-> <<26032, 26087, 36710>>, en_name |-> "vehicle_age_category", group |-> "vehicle", dtype |-> "string"],  \* 114: 新旧车
    [key |-> <<36710, 40836>>, en_name |-> "vehicle_age", group |-> "vehicle", dtype |-> "number"],  \* 115: 车龄
    [key |-> <<24231, 20301, 25968>>, en_name |-> "seat_count", group |-> "vehicle", dtype |-> "number"],  \* 116: 座位数
    [key |-> <<21544, 20301>>, en_name |-> "tonnage", group |-> "vehicle", dtype |-> "number"],  \* 117: 吨位
    [key |-> <<25490, 37327>>, en_name |-> "displacement", group |-> "vehicle", dtype |-> "number"],  \* 118: 排量
    [key |-> <<21151, 29575>>, en_name |-> "power", group |-> "vehicle", dtype |-> "number"],  \* 119: 功率
    [key |-> <<25972, 22791, 36136, 37327>>, en_name |-> "curb_weight", group |-> "vehicle", dtype |-> "number"],  \* 120: 整备质量
    [key |-> <<36141, 32622, 20215>>, en_name |-> "purchase_price", group |-> "vehicle", dtype |-> "number"],  \* 121: 购置价
    [key |-> <<26032, 36710, 36141, 32622, 20215>>, en_name |-> "new_vehicle_price", group |-> "vehicle", dtype |-> "number"],  \* 122: 新车购置价
    [key |-> <<38505, 31181>>, en_name |-> "coverage_type", group |-> "product", dtype |-> "string"],  \* 125: 险种
    [key |-> <<38505, 21035>>, en_name |-> "coverage", group |-> "product", dtype |-> "string"],  \* 126: 险别
    [key |-> <<38505, 31867>>, en_name |-> "insurance_class", group |-> "product", dtype |-> "string"],  \* 127: 险类
    [key |-> <<20135, 21697>>, en_name |-> "product", group |-> "product", dtype |-> "string"],  \* 128: 产品
    [key |-> <<20135, 21697, 21517, 31216>>, en_name |-> "product_name", group |-> "product", dtype |-> "string"],  \* 129: 产品名称
    [key |-> <<20445, 39069>>, en_name |-> "coverage_amount", group |-> "product", dtype |-> "number"],  \* 130: 保额
    [key |-> <<20445, 38505, 37329, 39069>>, en_name |-> "insured_amount", group |-> "product", dtype |-> "number"],  \* 131: 保险金额
    [key |-> <<38480, 39069>>, en_name |-> "limit", group |-> "product", dtype |-> "number"],  \* 132: 限额
    [key |-> <<25237, 20445, 20154>>, en_name |-> "policyholder", group |-> "customer", dtype |-> "string"],  \* 135: 投保人
    [key |-> <<34987, 20445, 38505, 20154>>, en_name |-> "insured", group |-> "customer", dtype |-> "string"],  \* 136: 被保险人
    [key |-> <<23458, 25143, 21517, 31216>>, en_name |-> "customer_name", group |-> "customer", dtype |-> "string"],  \* 137: 客户名称
    [key |-> <<23458, 25143, 31867, 22411>>, en_name |-> "customer_type", group |-> "customer", dtype |-> "string"],  \* 138: 客户类型
    [key |-> <<35777, 20214, 21495, 30721>>, en_name |-> "id_number", group |-> "customer", dtype |-> "string"],  \* 139: 证件号码
    [key |-> <<35777, 20214, 31867, 22411>>, en_name |-> "id_type", group |-> "customer", dtype |-> "string"],  \* 140: 证件类型
    [key |-> <<32852, 31995, 30005, 35805>>, en_name |-> "phone", group |-> "customer", dtype |-> "string"],  \* 141: 联系电话
    [key |-> <<22320, 22336>>, en_name |-> "address", group |-> "customer", dtype |-> "string"],  \* 142: 地址
    [key |-> <<20445, 38505, 36215, 26399>>, en_name |-> "policy_start_date", group |-> "time", dtype |-> "datetime"],  \* 145: 保险起期
    [key |-> <<20445, 38505, 27490, 26399>>, en_name |-> "policy_end_date", group |-> "time", dtype |-> "datetime"],  \* 146: 保险止期
    [key |-> <<29983, 25928, 26085, 26399>>, en_name |-> "effective_date", group |-> "time", dtype |-> "datetime"],  \* 147: 生效日期
    [key |-> <<21040, 26399, 26085, 26399>>, en_name |-> "expiration_date", group |-> "time", dtype |-> "datetime"],  \* 148: 到期日期
    [key |-> <<30830, 35748, 26102, 38388>>, en_name |-> "confirmation_time", group |-> "time", dtype |-> "datetime"],  \* 149: 确认时间
    [key |-> <<25237, 20445, 30830, 35748, 26102, 38388>>, en_name |-> "application_confirmation_time", group |-> "time", dtype |-> "datetime"],  \* 150: 投保确认时间
    [key |-> <<31614, 21333, 26102, 38388>>, en_name |-> "issuance_time", group |-> "time", dtype |-> "datetime"],  \* 151: 签单时间
    [key |-> <<25209, 25913, 26102, 38388>>, en_name |-> "endorsement_time", group |-> "time", dtype |-> "datetime"],  \* 152: 批改时间
    [key |-> <<36864, 20445, 26102, 38388>>, en_name |-> "cancellation_time", group |-> "time", dtype |-> "datetime"],  \* 153: 退保时间
    [key |-> <<20986, 38505, 26102, 38388>>, en_name |-> "claim_time", group |-> "time", dtype |-> "datetime"],  \* 154: 出险时间
    [key |-> <<25253, 26696, 26102, 38388>>, en_name |-> "report_time", group |-> "time", dtype |-> "datetime"],  \* 155: 报案时间
    [key |-> <<21047, 26032, 26102, 38388>>, en_name |-> "refresh_time", group |-> "time", dtype |-> "datetime"],  \* 156: 刷新时间
    [key |-> <<26159, 21542, 32493, 20445>>, en_name |-> "is_renewal", group |-> "flag", dtype |-> "boolean"],  \* 159: 是否续保
    [key |-> <<26159, 21542, 26032, 33021, 28304>>, en_name |-> "is_new_energy", group |-> "flag", dtype |-> "boolean"],  \* 160: 是否新能源
    [key |-> <<26159, 21542, 36807, 25143, 36710>>, en_name |-> "is_transferred", group |-> "flag", dtype |-> "boolean"],  \* 161: 是否过户车
    [key |-> <<26159, 21542, 32593, 32422, 36710>>, en_name |-> "is_ride_hailing", group |-> "flag", dtype |-> "boolean"],  \* 162: 是否网约车
    [key |-> <<26159, 21542, 33829, 19994>>, en_name |-> "is_commercial", group |-> "flag", dtype |-> "boolean"],  \* 163: 是否营业
    [key |-> <<32493, 20445, 26631, 35782>>, en_name |-> "renewal_flag", group |-> "flag", dtype |-> "boolean"],  \* 164: 续保标识
    [key |-> <<36716, 20445, 26631, 35782>>, en_name |-> "conversion_flag", group |-> "flag", dtype |-> "boolean"],  \* 165: 转保标识
    [key |-> <<20445, 21333, 29366, 24577>>, en_name |-> "policy_status", group |-> "general", dtype |-> "string"],  \* 168: 保单状态
    [key |-> <<19994, 21153, 29366, 24577>>, en_name |-> "business_status", group |-> "general", dtype |-> "string"],  \* 169: 业务状态
    [key |-> <<25215, 20445, 29366, 24577>>, en_name |-> "underwriting_status", group |-> "general", dtype |-> "string"],  \* 170: 承保状态
    [key |-> <<29702, 36180, 29366, 24577>>, en_name |-> "claim_status", group |-> "general", dtype |-> "string"],  \* 171: 理赔状态
    [key |-> <<35780, 20998>>, en_name |-> "score", group |-> "general", dtype |-> "number"],  \* 174: 评分
    [key |-> <<39118, 38505, 35780, 20998>>, en_name |-> "risk_score", group |-> "general", dtype |-> "number"],  \* 175: 风险评分
    [key |-> <<31561, 32423>>, en_name |-> "level", group |-> "general", dtype |-> "string"],  \* 176: 等级
    [key |-> <<39118, 38505, 31561, 32423>>, en_name |-> "risk_level", group |-> "general", dtype |-> "string"]  \* 177: 风险等级
  >>

(* self.keyword_patterns.sort(key=lambda x: x[1], reverse=True) *)
keyword_patterns ==
    SortedDescending(keyword_patterns_declared,
        [i \in 1..Len(keyword_patterns_declared) |-> keyword_patterns_declared[i].priority])

(* sorted(keyword_map.keys(), key=len, reverse=True) *)
sorted_keys ==
    SortedDescending(keyword_map, [i \in 1..Len(keyword_map) |-> Len(keyword_map[i].ph)])

-----------------------------------------------------------------------------
(* AIFieldMapper._translate_keywords                                           *)

(* One iteration of the loop over sorted_keys; st = [tokens, remaining]. *)
TranslateStep(st, kv) ==
    IF Contains(kv.ph, st.remaining)
    THEN [tokens    |-> IF kv.tk \in Range(st.tokens) THEN st.tokens
                        ELSE Append(st.tokens, kv.tk),
          remaining |-> RemoveFirst(kv.ph, st.remaining)]
    ELSE st

(* The for loop from sorted_keys[i] on.  An iteration whose keyword does not     *)
(* occur in remaining changes nothing, so the loop is taken from one keyword   *)
(* that occurs to the next.                                                    *)
RECURSIVE TranslateLoop(_, _, _)
TranslateLoop(st, keys, i) ==
    LET hits == {j \in i..Len(keys) : Contains(keys[j].ph, st.remaining)}
    IN  IF hits = {} THEN st
        ELSE LET j == CHOOSE j \in hits : \A k \in hits : j <= k
             IN  TranslateLoop(TranslateStep(st, keys[j]), keys, j + 1)

(* the loop's final state: the tokens returned and the text left over *)
TranslateState(field_name) ==
    TranslateLoop([tokens |-> <<>>, remaining |-> field_name], sorted_keys, 1)

translate_keywords(field_name) == TranslateState(field_name).tokens

-----------------------------------------------------------------------------
(* AIFieldMapper._infer_type_from_samples                                      *)
(* A sample value v is [na |-> pd.isna(v), s |-> str(v)].                      *)

(* \d, \s and lower() are taken on ASCII; the sample values of the model are  *)
(* ASCII and CJK text.                                                         *)
IsDigit(c) == c \in 48..57
IsSpace(c) == c \in {32, 9, 10, 13, 11, 12}
DateSep(c) == c \in {45, 47}       \* [-/]

(* re.search(r'\d{4}[-/]\d{1,2}[-/]\d{1,2}', s) *)
MatchYMD(s) ==
    \E i \in 1..Len(s) : \E a \in 1..2 :
        /\ i + 6 + a <= Len(s)
        /\ \A k \in 0..3 : IsDigit(s[i + k])
        /\ DateSep(s[i + 4])
        /\ \A k \in 1..a : IsDigit(s[i + 4 + k])
        /\ DateSep(s[i + 5 + a])
        /\ IsDigit(s[i + 6 + a])

(* re.search(r'\d{1,2}[-/]\d{1,2}[-/]\d{4}', s) *)
MatchDMY(s) ==
    \E i \in 1..Len(s) : \E b \in 1..2 :
        /\ i + 1 + b + 1 + 4 <= Len(s)
        /\ IsDigit(s[i])
        /\ DateSep(s[i + 1])
        /\ \A k \in 1..b : IsDigit(s[i + 1 + k])
        /\ DateSep(s[i + 2 + b])
        /\ \A k \in 1..4 : IsDigit(s[i + 2 + b + k])

(* re.search(r'\d{4}\d{2}\d{2}', s) *)
MatchCompact(s) ==
    \E i \in 1..Len(s) :
        /\ i + 7 <= Len(s)
        /\ \A k \in 0..7 : IsDigit(s[i + k])

DateLike(s) == MatchYMD(s) \/ MatchDMY(s) \/ MatchCompact(s)

(* str.strip() *)
RECURSIVE LStrip(_)
LStrip(s) == IF Len(s) > 0 /\ IsSpace(s[1]) THEN LStrip(Tail(s)) ELSE s
RECURSIVE RStrip(_)
RStrip(s) == IF Len(s) > 0 /\ IsSpace(s[Len(s)]) THEN RStrip(SubSeq(s, 1, Len(s) - 1)) ELSE s
Strip(s) == RStrip(LStrip(s))

(* str.lower() on the letters the boolean vocabulary uses (ASCII) *)
Lower(s) == [i \in 1..Len(s) |-> IF s[i] \in 65..90 THEN s[i] + 32 ELSE s[i]]

(* {'是','否','y','n','yes','no','true','false','0','1','t','f'} *)
boolean_indicators ==
    { <<26159>>, <<21542>>, <<121>>, <<110>>, <<121, 101, 115>>, <<110, 111>>,
      <<116, 114, 117, 101>>, <<102, 97, 108, 115, 101>>, <<48>>, <<49>>,
      <<116>>, <<102>> }

(* float(v_str) succeeds: [sign] mantissa [e [sign] digits], the mantissa being *)
(* digits with at most one '.' and at least one digit.  (float() also takes    *)
(* inf, nan and digit groups joined by '_'; the sample values of the model do  *)
(* not use them.)                                                              *)
Unsigned(s) == IF Len(s) >= 1 /\ s[1] \in {43, 45} THEN Tail(s) ELSE s

IsMantissa(s) ==
    LET dots == {i \in 1..Len(s) : s[i] = 46}
    IN  /\ Cardinality(dots) <= 1
        /\ Len(s) > Cardinality(dots)
        /\ \A i \in (1..Len(s)) \ dots : IsDigit(s[i])

ParsesAsFloat(t) ==
    LET s  == Unsigned(Strip(t))             \* float() ignores outer whitespace
        es == {i \in 1..Len(s) : s[i] \in {101, 69}}
    IN  IF es = {} THEN IsMantissa(s)
        ELSE /\ Cardinality(es) = 1
             /\ \A e \in es : /\ IsMantissa(SubSeq(s, 1, e - 1))
                              /\ Len(Unsigned(SubSeq(s, e + 1, Len(s)))) >= 1
                             /\ \A i \in 1..Len(Unsigned(SubSeq(s, e + 1, Len(s)))) :
                                    IsDigit(Unsigned(SubSeq(s, e + 1, Len(s)))[i])

(* v_str = str(v).strip().replace(',', '').replace('，', '') *)
NumericText(s) == RemoveAll(<<65292>>, RemoveAll(<<44>>, Strip(s)))

(* non_null[:20] *)
FirstN(seq, n) == SubSeq(seq, 1, IF Len(seq) < n THEN Len(seq) ELSE n)

infer_type_from_samples(sample_values) ==
    LET idx      == {i \in 1..Len(sample_values) : ~sample_values[i].na}
        non_null == [k \in 1..Cardinality(idx) |->
                        sample_values[CHOOSE i \in idx :
                            Cardinality({j \in idx : j < i}) = k - 1].s]
        head     == FirstN(non_null, 20)
        numeric_count == Cardinality({i \in 1..Len(head) : ParsesAsFloat(NumericText(head[i]))})
    IN  IF Len(sample_values) = 0 THEN "string"
        ELSE IF Len(non_null) = 0 THEN "string"
        ELSE IF DateLike(non_null[1]) THEN "datetime"                 \* sample_str = str(non_null[0])
        ELSE IF /\ Cardinality({Strip(non_null[i]) : i \in 1..Len(non_null)}) <= 3
                /\ {Lower(Strip(non_null[i])) : i \in 1..Len(non_null)} \subseteq boolean_indicators
             THEN "boolean"
        ELSE IF numeric_count * 10 > 8 * Len(head) THEN "number"       \* numeric_count / len > 0.8
        ELSE "string"

(* non_null = [v for v in sample_values if pd.notna(v)], as texts *)
NonNull(sample_values) ==
    LET idx == {i \in 1..Len(sample_values) : ~sample_values[i].na}
    IN  [k \in 1..Cardinality(idx) |->
            sample_values[CHOOSE i \in idx : Cardinality({j \in idx : j < i}) = k - 1].s]

-----------------------------------------------------------------------------
(* AIFieldMapper.analyze_field                                                 *)

(* re.search(pattern, field_name), the pattern as its alternatives *)
MatchAlt(a, name) ==
    IF a.s /\ a.e THEN name = a.lit
    ELSE IF a.s THEN StartsWith(name, a.lit)
    ELSE IF a.e THEN EndsWith(name, a.lit)
    ELSE Contains(a.lit, name)

RuleMatches(r, name) == \E k \in 1..Len(r.alts) : MatchAlt(r.alts[k], name)

(* index in exact_mappings of the key, 0 when field_name is no key *)
ExactIndex(name) ==
    IF \E i \in 1..Len(exact_mappings) : exact_mappings[i].key = name
    THEN CHOOSE i \in 1..Len(exact_mappings) : exact_mappings[i].key = name
    ELSE 0

(* A variant of the rule loop without its break: the last matching rule wins  *)
(* (used to test the sensitivity of C5_SingleBestRule)                         *)
FirstMatch_Last(name) ==
    LET hits == {i \in 1..Len(keyword_patterns) : RuleMatches(keyword_patterns[i], name)}
    IN  IF hits = {} THEN 0 ELSE CHOOSE i \in hits : \A j \in hits : j <= i

(* the rule at which the for loop breaks, 0 when it runs to the end *)
FirstMatch(name) ==
    LET hits == {i \in 1..Len(keyword_patterns) : RuleMatches(keyword_patterns[i], name)}
    IN  IF hits = {} THEN 0 ELSE CHOOSE i \in hits : \A j \in hits : i <= j

number_keywords ==
    { <<37329, 39069>>, <<20445, 36153>>, <<36153, 29992>>, <<36180, 27454>>,
      <<20215, 26684>>, <<25968, 37327>>, <<27425, 25968>>, <<39057, 24230>>,
      <<35780, 20998>>, <<29575>>, <<31995, 25968>>, <<25240, 25187>>,
      <<21544, 20301>>, <<24231, 20301>>, <<25490, 37327>>, <<21151, 29575>>,
      <<36710, 40836>>, <<31508, 25968>>, <<27604, 20363>> }

(* A variant of Step 3 without the test of the field name for a quantity     *)
(* keyword (used to test the sensitivity of C15_NumberGatedByName)             *)
RefineType_Ungated(field_name, dtype, sample_values) ==
    IF Len(sample_values) > 0 /\ dtype # "boolean"
    THEN LET inferred_type == infer_type_from_samples(sample_values)
         IN  IF inferred_type \in {"datetime", "boolean"} THEN inferred_type
             ELSE IF inferred_type = "number" /\ dtype = "string" THEN "number"
             ELSE dtype
    ELSE dtype

(* Step 3: the kind after the samples have been looked at *)
RefineType(field_name, dtype, sample_values) ==
    IF Len(sample_values) > 0 /\ dtype # "boolean"
    THEN LET inferred_type == infer_type_from_samples(sample_values)
         IN  IF inferred_type \in {"datetime", "boolean"} THEN inferred_type
             ELSE IF /\ inferred_type = "number"
                     /\ dtype = "string"
                     /\ \E kw \in number_keywords : Contains(kw, field_name)
                  THEN "number"
             ELSE dtype
    ELSE dtype

(* Step 5: snake_case and length *)
LowerAlpha == "abcdefghijklmnopqrstuvwxyz"
UpperAlpha == "ABCDEFGHIJKLMNOPQRSTUVWXYZ"

NameChars  == {SubSeq(LowerAlpha, i, i) : i \in 1..26}
                 \cup {"0", "1", "2", "3", "4", "5", "6", "7", "8", "9", "_"}

(* c.lower() for one ASCII character *)
LowerChar(c) ==
    IF \E i \in 1..26 : SubSeq(UpperAlpha, i, i) = c
    THEN LET i == CHOOSE i \in 1..26 : SubSeq(UpperAlpha, i, i) = c
         IN  SubSeq(LowerAlpha, i, i)
    ELSE c

(* re.sub(r'[^a-z0-9_]', '_', en_name.lower()) *)
RECURSIVE SnakeChars(_)
SnakeChars(s) ==
    IF Len(s) = 0 THEN ""
    ELSE LET c == LowerChar(SubSeq(s, 1, 1))
         IN  (IF c \in NameChars THEN c ELSE "_") \o SnakeChars(SubSeq(s, 2, Len(s)))

(* re.sub(r'_+', '_', s) *)
RECURSIVE SqueezeUnderscores(_)
SqueezeUnderscores(s) ==
    IF Len(s) <= 1 THEN s
    ELSE IF SubSeq(s, 1, 2) = "__" THEN SqueezeUnderscores(SubSeq(s, 2, Len(s)))
    ELSE SubSeq(s, 1, 1) \o SqueezeUnderscores(SubSeq(s, 2, Len(s)))

(* s.strip('_') *)
RECURSIVE StripUnderscores(_)
StripUnderscores(s) ==
    IF Len(s) > 0 /\ SubSeq(s, 1, 1) = "_" THEN StripUnderscores(SubSeq(s, 2, Len(s)))
    ELSE IF Len(s) > 0 /\ SubSeq(s, Len(s), Len(s)) = "_"
         THEN StripUnderscores(SubSeq(s, 1, Len(s) - 1))
    ELSE s

(* s.split('_') *)
RECURSIVE SplitUnderscore(_)
SplitUnderscore(s) ==
    LET cut == {i \in 1..Len(s) : SubSeq(s, i, i) = "_"}
    IN  IF cut = {} THEN <<s>>
        ELSE LET i == CHOOSE i \in cut : \A j \in cut : i <= j
             IN  <<SubSeq(s, 1, i - 1)>> \o SplitUnderscore(SubSeq(s, i + 1, Len(s)))

MaxNameLen == 50

ApplyConventions(raw) ==
    LET en_name == StripUnderscores(SqueezeUnderscores(SnakeChars(raw)))
        parts   == SplitUnderscore(en_name)
    IN  IF Len(en_name) > MaxNameLen
        THEN IF Len(parts) > 3 THEN Join(SubSeq(parts, 1, 3))
             ELSE SubSeq(en_name, 1, MaxNameLen)
        ELSE en_name

(* Step 4: the name before the conventions; h = abs(hash(field_name)) % 10000 *)
RawName(field_name, en_term, h) ==
    IF Len(en_term) = 1 /\ en_term[1] # "" /\ ~StrEndsWith(en_term[1], "_")
    THEN en_term[1]
    ELSE LET tokens == translate_keywords(field_name)
         IN  IF Len(tokens) > 0 THEN Join(tokens) ELSE "field_" \o ToString(h)

(* A variant of analyze_field without Step 1, the lookup in exact_mappings     *)
(* (used to test the sensitivity of C28_TestTableByExactLookup)                *)
analyze_field_RulesOnly(field_name, sample_values, h) ==
    LET m == FirstMatch(field_name)
        group   == IF m = 0 THEN "general" ELSE keyword_patterns[m].group
        dtype   == IF m = 0 THEN "string"  ELSE keyword_patterns[m].dtype
        en_term == IF m = 0 THEN <<>>      ELSE keyword_patterns[m].term
    IN  [en_name     |-> ApplyConventions(RawName(field_name, en_term, h)),
         group       |-> group,
         dtype       |-> RefineType(field_name, dtype, sample_values),
         description |-> <<field_name, " (auto-generated)">>]

(* The description is the pair <<field name, suffix>> for f"{field_name} (...)" *)
analyze_field(field_name, sample_values, h) ==
    LET x == ExactIndex(field_name)
        m == FirstMatch(field_name)
        group   == IF m = 0 THEN "general" ELSE keyword_patterns[m].group
        dtype   == IF m = 0 THEN "string"  ELSE keyword_patterns[m].dtype
        en_term == IF m = 0 THEN <<>>      ELSE keyword_patterns[m].term
    IN  IF x # 0
        THEN [en_name     |-> exact_mappings[x].en_name,
              group       |-> exact_mappings[x].group,
              dtype       |-> exact_mappings[x].dtype,
              description |-> <<field_name, " (exact match)">>]
        ELSE [en_name     |-> ApplyConventions(RawName(field_name, en_term, h)),
              group       |-> group,
              dtype       |-> RefineType(field_name, dtype, sample_values),
              description |-> <<field_name, " (auto-generated)">>]

(* the kind analyze_field has before Step 3: that of the exact table's entry,  *)
(* else that of the rule the loop broke at, else 'string'                      *)
NameDtype(field_name) ==
    IF ExactIndex(field_name) # 0 THEN exact_mappings[ExactIndex(field_name)].dtype
    ELSE IF FirstMatch(field_name) # 0 THEN keyword_patterns[FirstMatch(field_name)].dtype
    ELSE "string"

-----------------------------------------------------------------------------
(* AIFieldMapper.batch_analyze_fields: one mapping per unknown field, in the   *)
(* order of the list.  samples[i] is df[field].dropna().head(100).tolist(), or *)
(* <<>> when the field is no column of df; hash_of[i] is the field's hash.     *)
batch_analyze_fields(fields, samples, hash_of) ==
    [i \in 1..Len(fields) |->
        [key |-> fields[i], val |-> analyze_field(fields[i], samples[i], hash_of[i])]]

-----------------------------------------------------------------------------
(* FieldMappingManager                                                         *)
(* A dict is a sequence of items [key, val] with distinct keys.                *)

DictIndex(d, k) ==
    IF \E i \in 1..Len(d) : d[i].key = k
    THEN CHOOSE i \in 1..Len(d) : d[i].key = k
    ELSE 0

(* d[k] = v: an existing key keeps its position *)
DictSet(d, k, v) ==
    IF DictIndex(d, k) # 0
    THEN [d EXCEPT ![DictIndex(d, k)] = [key |-> k, val |-> v]]
    ELSE Append(d, [key |-> k, val |-> v])

(* d.update(e) *)
RECURSIVE DictUpdate(_, _)
DictUpdate(d, e) ==
    IF Len(e) = 0 THEN d
    ELSE DictUpdate(DictSet(d, e[1].key, e[1].val), Tail(e))

(* json.load(f) returns a config: a file that is no JSON text has no config    *)
Parses(file) == "config" \in DOMAIN file

(* A variant of load_all_mappings that takes the files in the reverse of the   *)
(* glob order, so that earlier files override later ones (used to test the     *)
(* sensitivity of C27_LearnedEntryUnlessOverridden)                            *)
RECURSIVE load_all_mappings_Reversed(_, _)
load_all_mappings_Reversed(acc, fs) ==
    IF Len(fs) = 0 THEN acc
    ELSE load_all_mappings_Reversed(
             IF Parses(fs[Len(fs)]) THEN DictUpdate(acc, fs[Len(fs)].config.mappings)
             ELSE acc,
             SubSeq(fs, 1, Len(fs) - 1))

(* load_all_mappings: the files in glob order; later files override earlier;   *)
(* the exception of a file that does not parse is caught and the file skipped  *)
RECURSIVE load_all_mappings(_, _)
load_all_mappings(acc, fs) ==
    IF Len(fs) = 0 THEN acc
    ELSE load_all_mappings(IF Parses(fs[1]) THEN DictUpdate(acc, fs[1].config.mappings)
                           ELSE acc,
                           Tail(fs))

(* A variant of get_mapping that knows only the entries that carry a group     *)
(* (used to test the sensitivity of C3_StoredEntryCarried)                     *)
get_mapping_Strict(store, cn_field) ==
    IF DictIndex(store, cn_field) = 0 THEN <<>>
    ELSE IF "group" \notin DOMAIN store[DictIndex(store, cn_field)].val THEN <<>>
    ELSE <<store[DictIndex(store, cn_field)].val>>

(* A variant of get_mapping that looks the name up by containment: the last    *)
(* entry whose key occurs in the name (used to test the sensitivity of         *)
(* C4_RepeatedEntryStable)                                                     *)
get_mapping_Contained(store, cn_field) ==
    LET hits == {i \in 1..Len(store) : Contains(store[i].key, cn_field)}
    IN  IF hits = {} THEN <<>>
        ELSE <<store[CHOOSE i \in hits : \A j \in hits : j <= i].val>>

(* get_mapping: <<>> for None, <<mapping>> otherwise *)
get_mapping(store, cn_field) ==
    IF DictIndex(store, cn_field) = 0 THEN <<>>
    ELSE <<store[DictIndex(store, cn_field)].val>>

(* `if mapping:` - neither None nor an empty dict *)
Truthy(m) == Len(m) = 1 /\ DOMAIN m[1] # {}

(* get_phrase_to_token_dict *)
get_phrase_to_token_dict(store) ==
    [i \in 1..Len(store) |-> [ph |-> store[i].key, tk |-> store[i].val.en_name]]

(* get_phrase_to_token_dict raises KeyError: mapping['en_name'] of an entry    *)
(* that has no en_name                                                         *)
PhraseDictRaises(store) == \E i \in 1..Len(store) : "en_name" \notin DOMAIN store[i].val


CustomIndex(fs) ==
    IF \E i \in 1..Len(fs) : fs[i].name = "custom"
    THEN CHOOSE i \in 1..Len(fs) : fs[i].name = "custom"
    ELSE 0

(* description or f"{cn_field}的自定义映射"; a description is the pair of the   *)
(* field name and the text around it, '' is <<>>                               *)
CustomDescription(cn_field, description) ==
    IF description = <<>> THEN <<cn_field, " (custom mapping)">> ELSE description

(* add_custom_mapping, the write succeeding: st = [store, files] *)
add_custom_mapping(st, cn_field, en_name, group, dtype, description) ==
    LET c      == CustomIndex(st.files)
        config == IF c # 0 THEN st.files[c].config ELSE [mappings |-> <<>>, learn_history |-> <<>>]
        entry  == [en_name |-> en_name, group |-> group, dtype |-> dtype,
                   description |-> CustomDescription(cn_field, description)]
        saved  == [mappings      |-> DictSet(config.mappings, cn_field, entry),
                   learn_history |-> Append(config.learn_history,
                                            [cn_field |-> cn_field, en_name |-> en_name])]
    IN  [store |-> DictSet(st.store, cn_field, entry),
         files |-> IF c # 0 THEN [st.files EXCEPT ![c].config = saved]
                   ELSE Append(st.files, [name |-> "custom", config |-> saved])]

(* the loop of batch_learn_fields over mappings.items(); the open(..., 'w') of *)
(* add_custom_mapping raises when the store is not writable, and the loop      *)
(* stops there: st.failed                                                      *)
RECURSIVE LearnLoop(_, _, _)
LearnLoop(st, mappings, can_write) ==
    IF Len(mappings) = 0 THEN st
    ELSE IF ~can_write THEN [st EXCEPT !.failed = TRUE]
    ELSE LET m == mappings[1]
             a == add_custom_mapping([store |-> st.store, files |-> st.files], m.key,
                      m.val.en_name, m.val.group, m.val.dtype, m.val.description)
         IN  LearnLoop([store |-> a.store, files |-> a.files, failed |-> FALSE],
                       Tail(mappings), can_write)

-----------------------------------------------------------------------------
(* ExcelAnalyzer                                                               *)

StrContains(s, p) == \E i \in 1..(Len(s) - Len(p) + 1) : SubSeq(s, i, i + Len(p) - 1) = p

derive_group(name) ==
    IF Contains(<<26102, 38388>>, name) \/ Contains(<<26085, 26399>>, name) THEN "time"   \* 时间 日期
    ELSE IF Contains(<<26426, 26500>>, name) THEN "organization"                           \* 机构
    ELSE IF \/ Contains(<<20445, 36153>>, name)                                            \* 保费
            \/ Contains(<<36153, 29992>>, name)                                            \* 费用
            \/ Contains(<<78, 67, 68>>, name) THEN "finance"                               \* NCD
    ELSE IF Contains(<<38505>>, name) THEN "product"                                       \* 险
    ELSE IF Contains(<<26159, 21542>>, name) THEN "flag"                                   \* 是否
    ELSE IF Contains(<<52, 83>>, name) \/ Contains(<<38598, 22242>>, name) THEN "partner"  \* 4S 集团
    ELSE IF Contains(<<36710, 29260>>, name) THEN "vehicle"                                \* 车牌
    ELSE IF Contains(<<36710>>, name) THEN "vehicle"                                       \* 车
    ELSE "general"

dtype_to_role(dtype_str) ==
    IF StrStartsWith(dtype_str, "float") \/ StrStartsWith(dtype_str, "int")
    THEN "measure" ELSE "dimension"

dtype_to_kind(dtype_str) ==
    IF StrStartsWith(dtype_str, "float") \/ StrStartsWith(dtype_str, "int") THEN "number"
    ELSE IF StrContains(dtype_str, "datetime") THEN "datetime"
    ELSE "string"

default_aggregation(role) == IF role = "measure" THEN "sum" ELSE "none"

(* sorted(self.phrase_to_token.items(), key=lambda kv: len(kv[0]), reverse=True) *)
SortedPhrases(p2t) == SortedDescending(p2t, [i \in 1..Len(p2t) |-> Len(p2t[i].ph)])

(* One iteration of the phrase loop of generate_alias_from_cn; st = [tokens, text] *)
AliasStep(st, kv) ==
    IF Contains(kv.ph, st.text) /\ kv.tk \notin Range(st.tokens)
    THEN [tokens |-> Append(st.tokens, kv.tk), text |-> RemoveAll(kv.ph, st.text)]
    ELSE st

(* The for loop from phrases[i] on, taken from one phrase that occurs in text   *)
(* to the next (an iteration whose phrase does not occur changes nothing).     *)
RECURSIVE AliasLoop(_, _, _)
AliasLoop(st, phrases, i) ==
    LET hits == {j \in i..Len(phrases) : Contains(phrases[j].ph, st.text)}
    IN  IF hits = {} THEN st
        ELSE LET j == CHOOSE j \in hits : \A k \in hits : j <= k
             IN  AliasLoop(AliasStep(st, phrases[j]), phrases, j + 1)

(* the loop's final state *)
AliasState(p2t, col) == AliasLoop([tokens |-> <<>>, text |-> col], SortedPhrases(p2t), 1)


(* generate_alias_from_cn: [name, found] *)
generate_alias_from_cn(store, p2t, col) ==
    LET mapping == get_mapping(store, col)
        tokens  == AliasState(p2t, col).tokens
    IN  IF Truthy(mapping) THEN [name |-> mapping[1].en_name, found |-> TRUE]
        ELSE IF Len(tokens) > 0 THEN [name |-> Join(tokens), found |-> TRUE]
        ELSE [name |-> "unknown_field", found |-> FALSE]

(* the candidate name and is_mapped flag build_field_mapping works with *)
Candidate(store, p2t, col) ==
    LET field_mapping == get_mapping(store, col)
    IN  IF Truthy(field_mapping)
        THEN [name |-> field_mapping[1].en_name, found |-> TRUE]
        ELSE generate_alias_from_cn(store, p2t, col)

(* A variant of the uniqueness step that does not count: every later           *)
(* occurrence gets the suffix _1 (used to test the sensitivity of              *)
(* C2_SuffixByOccurrence)                                                      *)
EnsureUnique_Once(used, field_en) ==
    IF field_en \in DOMAIN used
    THEN [name |-> field_en \o "_1", used |-> used]
    ELSE [name |-> field_en, used |-> used @@ (field_en :> 0)]

(* "确保英文名唯一": used is used_names; returns the name and the new dict *)
EnsureUnique(used, field_en) ==
    IF field_en \in DOMAIN used
    THEN LET n == used[field_en] + 1
         IN  [name |-> field_en \o "_" \o ToString(n),
              used |-> [used EXCEPT ![field_en] = n]]
    ELSE [name |-> field_en, used |-> used @@ (field_en :> 0)]

RoleOf(col_name, dtype_str) ==
    IF \/ \E kw \in {<<35780, 20998>>, <<31561, 32423>>, <<20998, 25968>>, <<32423, 21035>>} :
              Contains(kw, col_name)                              \* 评分 等级 分数 级别
       \/ Contains(<<31995, 25968>>, col_name)                    \* 系数
    THEN "dimension"
    ELSE dtype_to_role(dtype_str)

(* A variant of the aggregation rule that tests the currency keywords before   *)
(* the ratio keywords (used to test the sensitivity of C17_SumUnlessRatio)     *)
AggregationOf_SumFirst(col_name, role) ==
    IF role = "measure"
    THEN IF \E kw \in {<<20445, 36153>>, <<37329, 39069>>, <<36153, 29992>>,
                       <<20215, 26684>>, <<36180, 27454>>, <<25163, 32493, 36153>>,
                       <<31246>>} :
                Contains(kw, col_name)
         THEN "sum"
         ELSE IF \E kw \in {<<27604, 20363>>, <<25240, 25187>>, <<31995, 25968>>,
                            <<78, 67, 68>>, <<20248, 24453>>} :
                    Contains(kw, col_name)
              THEN "avg"
              ELSE default_aggregation(role)
    ELSE default_aggregation(role)

AggregationOf(col_name, role) ==
    IF role = "measure"
    THEN IF \E kw \in {<<27604, 20363>>, <<25240, 25187>>, <<31995, 25968>>,
                       <<78, 67, 68>>, <<20248, 24453>>} :        \* 比例 折扣 系数 NCD 优待
                Contains(kw, col_name)
         THEN "avg"
         ELSE IF \E kw \in {<<20445, 36153>>, <<37329, 39069>>, <<36153, 29992>>,
                            <<20215, 26684>>, <<36180, 27454>>, <<25163, 32493, 36153>>,
                            <<31246>>} :                          \* 保费 金额 费用 价格 赔款 手续费 税
                    Contains(kw, col_name)
              THEN "sum"
              ELSE default_aggregation(role)
    ELSE default_aggregation(role)

(* notes: a column s carries null_pct and numeric_stats (<<>> for None) *)
NotesOf(s, kind) ==
    (IF s.null_pct > 0 THEN <<<<"null_pct", s.null_pct>>>> ELSE <<>>)
    \o (IF kind = "number" /\ Len(s.numeric_stats) = 1 /\ s.numeric_stats[1].min < 0
        THEN <<<<"negative", 0>>>> ELSE <<>>)

(* One iteration of the loop of build_field_mapping over sheet_summary.items(); *)
(* st = [mapping, used_names, unknown_fields], s = [col, dtype, ...]           *)
BuildStep(store, p2t, st, s) ==
    LET col           == s.col
        dtype_str     == s.dtype
        field_mapping == get_mapping(store, col)
        hit           == Truthy(field_mapping)
        cand          == Candidate(store, p2t, col)
        group == IF hit /\ "group" \in DOMAIN field_mapping[1]
                 THEN field_mapping[1].group ELSE derive_group(col)
        kind  == IF hit /\ "dtype" \in DOMAIN field_mapping[1]
                 THEN field_mapping[1].dtype ELSE dtype_to_kind(dtype_str)
        desc  == IF hit
                 THEN IF "description" \in DOMAIN field_mapping[1]
                      THEN field_mapping[1].description ELSE <<col, "">>
                 ELSE IF kind = "number" THEN <<col, "number">>
                 ELSE IF kind = "datetime" THEN <<col, "datetime">>
                 ELSE <<col, "string">>
        role        == RoleOf(col, dtype_str)
        aggregation == AggregationOf(col, role)
        u           == EnsureUnique(st.used_names, cand.name)
    IN  [mapping        |-> Append(st.mapping,
                               [field_name    |-> u.name,
                                cn_name       |-> col,
                                source_column |-> col,
                                group         |-> group,
                                dtype         |-> kind,
                                role          |-> role,
                                aggregation   |-> aggregation,
                                description   |-> desc,
                                notes         |-> NotesOf(s, kind),
                                is_mapped     |-> cand.found]),
         used_names     |-> u.used,
         unknown_fields |-> IF cand.found THEN st.unknown_fields
                            ELSE Append(st.unknown_fields, col)]

RECURSIVE BuildLoop(_, _, _, _)
BuildLoop(store, p2t, st, summary) ==
    IF Len(summary) = 0 THEN st
    ELSE BuildLoop(store, p2t, BuildStep(store, p2t, st, summary[1]), Tail(summary))


(* build_field_mapping: [mapping, unknown_fields] *)
build_field_mapping(store, p2t, summary) ==
    LET st == BuildLoop(store, p2t,
                        [mapping |-> <<>>, used_names |-> [x \in {} |-> 0], unknown_fields |-> <<>>],
                        summary)
    IN  [mapping |-> st.mapping, unknown_fields |-> st.unknown_fields]


-----------------------------------------------------------------------------
(* MappingValidator (scripts/mapping_validator.py)                             *)
(* The validator takes the source name and the canonical name from outside;    *)
(* both are sequences of code points here.                                     *)

(* the code point of a character of [A-Za-z0-9_], the characters the English   *)
(* words of the validator's tables and of the model's inputs are written with  *)
CodeOf(c) ==
    IF \E i \in 1..26 : SubSeq(LowerAlpha, i, i) = c
    THEN 96 + (CHOOSE i \in 1..26 : SubSeq(LowerAlpha, i, i) = c)
    ELSE IF \E i \in 1..26 : SubSeq(UpperAlpha, i, i) = c
    THEN 64 + (CHOOSE i \in 1..26 : SubSeq(UpperAlpha, i, i) = c)
    ELSE IF \E i \in 1..10 : SubSeq("0123456789", i, i) = c
    THEN 47 + (CHOOSE i \in 1..10 : SubSeq("0123456789", i, i) = c)
    ELSE 95

Ascii(str) == [i \in 1..Len(str) |-> CodeOf(SubSeq(str, i, i))]

(* self.domain_terms: the vocabulary of each group *)
domain_terms ==
    [ time         |-> {
          Ascii("time"), Ascii("date"), Ascii("datetime"), Ascii("start"), Ascii("end"),
          Ascii("confirm"), Ascii("refresh"), Ascii("signing")
        },
      organization |-> {
          Ascii("organization"), Ascii("branch"), Ascii("center"), Ascii("company"),
          Ascii("department"), Ascii("agent"), Ascii("broker")
        },
      finance      |-> {
          Ascii("premium"), Ascii("fee"), Ascii("amount"), Ascii("cost"), Ascii("price"),
          Ascii("commission"), Ascii("discount"), Ascii("tax"), Ascii("vat"), Ascii("ncd"),
          Ascii("ratio"), Ascii("coefficient")
        },
      product      |-> {
          Ascii("insurance"), Ascii("policy"), Ascii("coverage"), Ascii("product"),
          Ascii("insured_amount"), Ascii("endorsement")
        },
      vehicle      |-> {
          Ascii("vehicle"), Ascii("car"), Ascii("license_plate"), Ascii("vin"), Ascii("engine"),
          Ascii("model"), Ascii("brand"), Ascii("seats"), Ascii("tonnage"), Ascii("displacement"),
          Ascii("weight")
        },
      flag         |-> {
          Ascii("is"), Ascii("has"), Ascii("flag"), Ascii("type"), Ascii("category"),
          Ascii("level"), Ascii("status"), Ascii("indicator")
        },
      general      |-> {
          Ascii("customer"), Ascii("client"), Ascii("name"), Ascii("id_number"), Ascii("age"),
          Ascii("gender"), Ascii("source"), Ascii("nature"), Ascii("applicant"), Ascii("insured"),
          Ascii("owner")
        } ]

(* self.expected_mappings, in the order of the dict *)
expected_mappings ==
    << [cn |-> <<26102, 38388>>, en |-> Ascii("time")],   \* 42: 时间
       [cn |-> <<26085, 26399>>, en |-> Ascii("date")],   \* 43: 日期
       [cn |-> <<20445, 36153>>, en |-> Ascii("premium")],   \* 44: 保费
       [cn |-> <<36153, 29992>>, en |-> Ascii("fee")],   \* 45: 费用
       [cn |-> <<26426, 26500>>, en |-> Ascii("organization")],   \* 46: 机构
       [cn |-> <<25903, 20844, 21496>>, en |-> Ascii("branch")],   \* 47: 支公司
       [cn |-> <<38505, 31181>>, en |-> Ascii("insurance_type")],   \* 48: 险种
       [cn |-> <<36710, 29260>>, en |-> Ascii("license_plate")],   \* 49: 车牌
       [cn |-> <<23458, 25143>>, en |-> Ascii("customer")],   \* 50: 客户
       [cn |-> <<20445, 21333>>, en |-> Ascii("policy")],   \* 51: 保单
       [cn |-> <<19994, 21153, 21592>>, en |-> Ascii("agent")],   \* 52: 业务员
       [cn |-> <<26159, 21542>>, en |-> Ascii("is")],   \* 53: 是否
       [cn |-> <<26631, 35782>>, en |-> Ascii("flag")],   \* 54: 标识
       [cn |-> <<37329, 39069>>, en |-> Ascii("amount")],   \* 55: 金额
       [cn |-> <<25240, 25187>>, en |-> Ascii("discount")],   \* 56: 折扣
       [cn |-> <<31995, 25968>>, en |-> Ascii("coefficient")],   \* 57: 系数
       [cn |-> <<30830, 35748>>, en |-> Ascii("confirm")],   \* 58: 确认
       [cn |-> <<25237, 20445>>, en |-> Ascii("insure")],   \* 59: 投保
       [cn |-> <<34987, 20445, 38505, 20154>>, en |-> Ascii("insured")],   \* 60: 被保险人
       [cn |-> <<25237, 20445, 20154>>, en |-> Ascii("applicant")],   \* 61: 投保人
       [cn |-> <<35777, 20214, 21495>>, en |-> Ascii("id_number")],   \* 62: 证件号
       [cn |-> <<24180, 40836>>, en |-> Ascii("age")],   \* 63: 年龄
       [cn |-> <<24615, 21035>>, en |-> Ascii("gender")],   \* 64: 性别
       [cn |-> <<36710, 22411>>, en |-> Ascii("vehicle_model")],   \* 65: 车型
       [cn |-> <<36710, 26550, 21495>>, en |-> Ascii("vin")],   \* 66: 车架号
       [cn |-> <<21457, 21160, 26426>>, en |-> Ascii("engine")],   \* 67: 发动机
       [cn |-> <<31614, 21333>>, en |-> Ascii("signing")],   \* 68: 签单
       [cn |-> <<25209, 25913>>, en |-> Ascii("endorsement")],   \* 69: 批改
       [cn |-> <<20445, 39069>>, en |-> Ascii("insured_amount")],   \* 70: 保额
       [cn |-> <<25163, 32493, 36153>>, en |-> Ascii("commission")],   \* 71: 手续费
       [cn |-> <<27604, 20363>>, en |-> Ascii("ratio")],   \* 72: 比例
       [cn |-> <<24231, 20301>>, en |-> Ascii("seats")],   \* 73: 座位
       [cn |-> <<21544, 20301>>, en |-> Ascii("tonnage")],   \* 74: 吨位
       [cn |-> <<25490, 37327>>, en |-> Ascii("displacement")] >>   \* 75: 排量

(* mapping.get(key, default) *)
Get(mapping, key, default) == IF key \in DOMAIN mapping THEN mapping[key] ELSE default

(* any(keyword in cn_name for keyword in keywords) *)
AnyIn(keywords, text) == \E kw \in keywords : Contains(kw, text)

(* self.naming_pattern = re.compile(r'^[a-z][a-z0-9_]*$') *)
naming_pattern(s) ==
    /\ Len(s) >= 1
    /\ s[1] \in 97..122
    /\ \A i \in 2..Len(s) : s[i] \in 97..122 \/ IsDigit(s[i]) \/ s[i] = 95

(* re.search(r'_\d+$', en_name) *)
NumberSuffix(s) ==
    \E i \in 1..(Len(s) - 1) : s[i] = 95 /\ \A k \in (i + 1)..Len(s) : IsDigit(s[k])

(* re.search(r'_field_\d+$', en_name) *)
FieldNumberSuffix(s) ==
    \E i \in 1..(Len(s) - 7) :
        /\ SubSeq(s, i, i + 6) = Ascii("_field_")
        /\ \A k \in (i + 7)..Len(s) : IsDigit(s[k])

(* check_naming_convention: the rule the name breaks, "" when it breaks none *)
check_naming_convention(en_name) ==
    IF Len(en_name) = 0 THEN "empty"
    ELSE IF ~naming_pattern(en_name) THEN "charset"
    ELSE IF Len(en_name) > 50 THEN "length"
    ELSE IF StartsWith(en_name, <<95>>) \/ EndsWith(en_name, <<95>>) THEN "outer_underscore"
    ELSE IF Contains(<<95, 95>>, en_name) THEN "double_underscore"
    ELSE IF \/ en_name \in {Ascii("field"), Ascii("unknown_field")}
            \/ StartsWith(en_name, Ascii("field_"))
         THEN "placeholder"
    ELSE IF EndsWith(en_name, Ascii("_field")) THEN "field_suffix"
    ELSE IF FieldNumberSuffix(en_name) THEN "field_number"
    ELSE ""

(* the rules whose message holds the mark of a critical issue *)
CriticalNaming == {"placeholder", "field_suffix", "field_number"}

(* s.split('_') on code points *)
RECURSIVE SplitCodes(_)
SplitCodes(s) ==
    LET cut == {i \in 1..Len(s) : s[i] = 95}
    IN  IF cut = {} THEN <<s>>
        ELSE LET i == CHOOSE i \in cut : \A j \in cut : i <= j
             IN  <<SubSeq(s, 1, i - 1)>> \o SplitCodes(SubSeq(s, i + 1, Len(s)))

(* A variant of the group check that splits the name as it is written (used   *)
(* to test the sensitivity of C22_GroupPassesOnLoweredToken)                   *)
check_group_consistency_AsWritten(cn_name, en_name, group) ==
    IF group \notin DOMAIN domain_terms THEN FALSE
    ELSE IF Range(SplitCodes(en_name)) \cap domain_terms[group] # {} THEN TRUE
    ELSE group = "general"

(* check_group_consistency: group_ok *)
check_group_consistency(cn_name, en_name, group) ==
    IF group \notin DOMAIN domain_terms THEN FALSE
    ELSE IF Range(SplitCodes(Lower(en_name))) \cap domain_terms[group] # {} THEN TRUE
    ELSE group = "general"

(* check_semantic_accuracy: the entries of expected_mappings whose keyword is  *)
(* in cn_name and whose term is not in en_name.lower()                         *)
SemanticExpected(cn_name, en_name) ==
    {i \in 1..Len(expected_mappings) :
        /\ Contains(expected_mappings[i].cn, cn_name)
        /\ ~Contains(expected_mappings[i].en, Lower(en_name))}

(* check_semantic_accuracy: what it takes from 100, one number per issue, in   *)
(* the order of the issues                                                     *)
SemanticDeductions(cn_name, en_name) ==
    [i \in 1..Cardinality(SemanticExpected(cn_name, en_name)) |-> 15]
    \o (IF \E i \in 1..Len(en_name) : en_name[i] \in 19968..40959     \* [一-鿿]
        THEN <<30>> ELSE <<>>)
    \o (IF Len(SplitCodes(en_name)) = 1 /\ Len(cn_name) > 4 THEN <<10>> ELSE <<>>)
    \o (IF NumberSuffix(en_name) THEN <<5>> ELSE <<>>)

RECURSIVE Sum(_)
Sum(seq) == IF Len(seq) = 0 THEN 0 ELSE seq[1] + Sum(Tail(seq))

Max(a, b) == IF a >= b THEN a ELSE b

(* check_semantic_accuracy: (max(0, score), issues), the issues as their count *)
check_semantic_accuracy(cn_name, en_name) ==
    [score  |-> Max(0, 100 - Sum(SemanticDeductions(cn_name, en_name))),
     issues |-> Len(SemanticDeductions(cn_name, en_name))]

(* check_dtype_consistency: the issues it collects, critical ones marked *)
DtypeIssues(cn_name, dtype, en_name) ==
    (IF /\ AnyIn({<<20445, 21333, 21495>>, <<25209, 21333, 21495>>,
                  <<35777, 20214, 21495>>, <<21333, 21495>>}, cn_name)   \* 保单号 批单号 证件号 单号
        /\ dtype = "number"
     THEN <<[check |-> "dtype_serial", critical |-> TRUE]>> ELSE <<>>)
    \o (IF /\ AnyIn({<<26102, 38388>>, <<26085, 26399>>, <<36215, 26399>>,
                     <<27490, 26399>>, <<29983, 25928>>, <<21040, 26399>>}, cn_name)
                                                             \* 时间 日期 起期 止期 生效 到期
           /\ dtype # "datetime"
        THEN <<[check |-> "dtype_time", critical |-> TRUE]>> ELSE <<>>)
    \o (IF /\ StartsWith(cn_name, <<26159, 21542>>)                        \* 是否
           /\ dtype \notin {"bool", "boolean", "enum"}
        THEN <<[check |-> "dtype_flag", critical |-> TRUE]>> ELSE <<>>)
    \o (IF /\ AnyIn({<<20445, 36153>>, <<36153, 29992>>, <<37329, 39069>>, <<20215, 26684>>,
                     <<36180, 27454>>, <<25163, 32493, 36153>>, <<31246>>}, cn_name)
                                                             \* 保费 费用 金额 价格 赔款 手续费 税
           /\ dtype = "number"
           /\ ~(Contains(Ascii("_yuan"), en_name) \/ Contains(Ascii("_amount"), en_name))
        THEN <<[check |-> "dtype_unit", critical |-> FALSE]>> ELSE <<>>)
    \o (IF /\ AnyIn({<<27604, 20363>>, <<25240, 25187>>, <<31995, 25968>>}, cn_name)   \* 比例 折扣 系数
           /\ dtype = "number"
           /\ ~AnyIn({Ascii("_ratio"), Ascii("_percent"), Ascii("_coefficient"), Ascii("_rate")},
                     en_name)
        THEN <<[check |-> "dtype_format", critical |-> FALSE]>> ELSE <<>>)

(* check_dtype_consistency: dtype_ok *)
check_dtype_consistency(cn_name, dtype, en_name) == DtypeIssues(cn_name, dtype, en_name) = <<>>

(* validate_mapping, step 5: the role and aggregation checks *)
RatedAsSum(cn_name, role, aggregation) ==
    /\ AnyIn({<<35780, 20998>>, <<31561, 32423>>, <<20998, 25968>>, <<32423, 21035>>,
              <<31995, 25968>>}, cn_name)                                  \* 评分 等级 分数 级别 系数
    /\ role = "measure" /\ aggregation = "sum"

RatioAsSum(cn_name, dtype, aggregation) ==
    /\ AnyIn({<<27604, 20363>>, <<31995, 25968>>, <<25240, 25187>>, <<29575>>}, cn_name)
                                                             \* 比例 系数 折扣 率
    /\ dtype = "number" /\ aggregation = "sum"

CurrencyNotSum(cn_name, role, aggregation) ==
    /\ AnyIn({<<20445, 36153>>, <<36153, 29992>>, <<37329, 39069>>, <<20215, 26684>>,
              <<36180, 27454>>, <<25163, 32493, 36153>>, <<31246>>}, cn_name)
                                                             \* 保费 费用 金额 价格 赔款 手续费 税
    /\ role = "measure" /\ aggregation # "sum"

(* validate_mapping, steps 1-5: what each failed check takes from overall_score *)
NamingDeduction(en_name) ==
    IF check_naming_convention(en_name) = "" THEN 0
    ELSE IF check_naming_convention(en_name) \in CriticalNaming THEN 40
    ELSE 20

GroupDeduction(cn_name, en_name, group) ==
    IF check_group_consistency(cn_name, en_name, group) THEN 0 ELSE 15

DtypeDeduction(cn_name, dtype, en_name) ==
    IF check_dtype_consistency(cn_name, dtype, en_name) THEN 0 ELSE 20

RoleDeduction(cn_name, dtype, role, aggregation) ==
    (IF RatedAsSum(cn_name, role, aggregation) THEN 25 ELSE 0)
    + (IF RatioAsSum(cn_name, dtype, aggregation) THEN 15 ELSE 0)

(* overall_score as lines 241-294 leave it *)
OverallScore(cn_name, en_name, group, dtype, role, aggregation) ==
    (IF 100 - NamingDeduction(en_name) - GroupDeduction(cn_name, en_name, group)
            <= check_semantic_accuracy(cn_name, en_name).score
     THEN 100 - NamingDeduction(en_name) - GroupDeduction(cn_name, en_name, group)
     ELSE check_semantic_accuracy(cn_name, en_name).score)
      - DtypeDeduction(cn_name, dtype, en_name)
      - RoleDeduction(cn_name, dtype, role, aggregation)

(* result['issues'] and result['warnings']: each message as the check it comes *)
(* from and whether it holds the mark of a critical issue.  (The messages of   *)
(* the semantic check quote cn_name and en_name; the names of the model do not *)
(* hold the mark.)                                                             *)
Issues(cn_name, en_name, dtype, role, aggregation) ==
    (IF check_naming_convention(en_name) = "" THEN <<>>
     ELSE <<[check    |-> "naming",
             critical |-> check_naming_convention(en_name) \in CriticalNaming]>>)
    \o [i \in 1..check_semantic_accuracy(cn_name, en_name).issues |->
            [check |-> "semantic", critical |-> FALSE]]
    \o (IF check_dtype_consistency(cn_name, dtype, en_name) THEN <<>>
        ELSE <<[check    |-> "dtype",
                critical |-> \E i \in 1..Len(DtypeIssues(cn_name, dtype, en_name)) :
                                 DtypeIssues(cn_name, dtype, en_name)[i].critical]>>)
    \o (IF RatedAsSum(cn_name, role, aggregation)
        THEN <<[check |-> "role", critical |-> TRUE]>> ELSE <<>>)

Warnings(cn_name, en_name, group, dtype, role, aggregation) ==
    (IF check_group_consistency(cn_name, en_name, group) THEN <<>>
     ELSE <<[check |-> "group", critical |-> FALSE]>>)
    \o (IF RatioAsSum(cn_name, dtype, aggregation)
        THEN <<[check |-> "ratio_sum", critical |-> FALSE]>> ELSE <<>>)
    \o (IF CurrencyNotSum(cn_name, role, aggregation)
        THEN <<[check |-> "currency_not_sum", critical |-> FALSE]>> ELSE <<>>)

(* critical_issues is not empty *)
HasCritical(issues) == \E i \in 1..Len(issues) : issues[i].critical

(* _suggest_better_mapping: the loop over sorted_keywords from keys[i] on,     *)
(* taken from one keyword that occurs in remaining to the next                 *)
RECURSIVE SuggestLoop(_, _, _)
SuggestLoop(st, keys, i) ==
    LET hits == {j \in i..Len(keys) : Contains(keys[j].cn, st.remaining)}
    IN  IF hits = {} THEN st
        ELSE LET j == CHOOSE j \in hits : \A k \in hits : j <= k
             IN  SuggestLoop([tokens    |-> Append(st.tokens, keys[j].en),
                              remaining |-> RemoveFirst(keys[j].cn, st.remaining)],
                             keys, j + 1)

(* '_'.join(tokens) on code points *)
RECURSIVE JoinCodes(_)
JoinCodes(tokens) ==
    IF Len(tokens) = 0 THEN <<>>
    ELSE IF Len(tokens) = 1 THEN tokens[1]
    ELSE tokens[1] \o <<95>> \o JoinCodes(Tail(tokens))

(* sorted(self.expected_mappings.keys(), key=len, reverse=True) *)
sorted_keywords ==
    SortedDescending(expected_mappings,
        [i \in 1..Len(expected_mappings) |-> Len(expected_mappings[i].cn)])

suggest_better_mapping(cn_name) ==
    JoinCodes(SuggestLoop([tokens |-> <<>>, remaining |-> cn_name], sorted_keywords, 1).tokens)

(* validate_mapping, step 6: result['suggestions'] *)
Suggestions(cn_name, en_name, score) ==
    IF score < 70
    THEN LET suggested_en == suggest_better_mapping(cn_name)
         IN  <<[check |-> "review"]>>
             \o (IF suggested_en # <<>> /\ suggested_en # en_name
                 THEN <<[check |-> "name", name |-> suggested_en]>>
                 ELSE <<>>)
    ELSE <<>>

(* A variant of the tiers with the bound of good at 75 (used to test the       *)
(* sensitivity of C19_TierByScore)                                             *)
quality_level_Lenient(score, critical) ==
    IF score >= 95 THEN (IF critical THEN "good" ELSE "excellent")
    ELSE IF score >= 75 THEN "good"
    ELSE IF score >= 65 THEN "fair"
    ELSE "poor"

(* validate_mapping, steps 7-8: the tier *)
quality_level(score, critical) ==
    IF score >= 95 THEN (IF critical THEN "good" ELSE "excellent")
    ELSE IF score >= 80 THEN "good"
    ELSE IF score >= 65 THEN "fair"
    ELSE "poor"

(* validate_mapping on the values of the keys it reads; has_critical_issues is *)
(* result.get('has_critical_issues', False): the key is set at line 328 only   *)
ValidateFields(cn_name, en_name, group, dtype, role, aggregation) ==
    LET score  == OverallScore(cn_name, en_name, group, dtype, role, aggregation)
        issues == Issues(cn_name, en_name, dtype, role, aggregation)
    IN  [cn_name       |-> cn_name,
         en_name       |-> en_name,
         group         |-> group,
         dtype         |-> dtype,
         overall_score |-> score,
         issues        |-> issues,
         warnings      |-> Warnings(cn_name, en_name, group, dtype, role, aggregation),
         suggestions   |-> Suggestions(cn_name, en_name, score),
         quality_level |-> quality_level(score, HasCritical(issues)),
         has_critical_issues |-> HasCritical(issues)]

validate_mapping(mapping) ==
    ValidateFields(Get(mapping, "cn_name", <<>>), Get(mapping, "field_name", <<>>),
                   Get(mapping, "group", "general"), Get(mapping, "dtype", "string"),
                   Get(mapping, "role", "dimension"), Get(mapping, "aggregation", "none"))

(* Python's None as the value of a key: it is no str, and no code point is     *)
(* negative                                                                    *)
None == <<-1>>

(* validate_mapping raises: en_name.lower() on None at line 130 when the group *)
(* is a key of domain_terms; `cn_keyword in cn_name` on None at line 155;      *)
(* en_name.lower() at line 156 or re.search(..., en_name) at line 161 on None  *)
ValidateRaises(mapping) ==
    LET cn_name == Get(mapping, "cn_name", <<>>)
        en_name == Get(mapping, "field_name", <<>>)
        group   == Get(mapping, "group", "general")
    IN  \/ group \in DOMAIN domain_terms /\ en_name = None
        \/ cn_name = None
        \/ en_name = None

(* round(a / b, 2) * 100 for b > 0: the quotient in hundredths, a tie going to *)
(* the even neighbour                                                          *)
RoundHundredths(a, b) ==
    LET q == (100 * a) \div b
        r == (100 * a) % b
    IN  IF 2 * r < b THEN q
        ELSE IF 2 * r > b THEN q + 1
        ELSE IF q % 2 = 0 THEN q ELSE q + 1

(* batch_validate, lines 366-400: the statistics of the results; avg_score is  *)
(* in hundredths                                                               *)
BatchStats(results, review) ==
    [total     |-> Len(results),
     excellent |-> Cardinality({i \in 1..Len(results) : results[i].quality_level = "excellent"}),
     good      |-> Cardinality({i \in 1..Len(results) : results[i].quality_level = "good"}),
     fair      |-> Cardinality({i \in 1..Len(results) : results[i].quality_level = "fair"}),
     poor      |-> Cardinality({i \in 1..Len(results) : results[i].quality_level = "poor"}),
     avg_score |-> IF Len(results) > 0
                   THEN RoundHundredths(Sum([i \in 1..Len(results) |->
                                                results[i].overall_score]),
                                        Len(results))
                   ELSE 0,
     needs_review |->
         [i \in 1..Len(review) |->
             [cn_name |-> review[i].cn_name,
              en_name |-> review[i].en_name,
              score |-> review[i].overall_score,
              issues |-> review[i].issues,
              warnings |-> review[i].warnings,
              suggestions |-> review[i].suggestions]],
     critical_issues_count |->
         Cardinality({i \in 1..Len(results) : results[i].has_critical_issues})]

(* batch_validate: an exception of validate_mapping is not caught; the list   *)
(* of results is built once, then the statistics are taken from it             *)
batch_validate(mappings) ==
    IF \E i \in 1..Len(mappings) : ValidateRaises(mappings[i])
    THEN [raised |-> TRUE]
    ELSE CHOOSE out \in
             { [raised  |-> FALSE,
                results |-> results,
                stats   |-> BatchStats(results,
                                       SelectSeq(results, LAMBDA r : r.overall_score < 80))] :
               results \in {[i \in 1..Len(mappings) |-> validate_mapping(mappings[i])]} } : TRUE

-----------------------------------------------------------------------------
(* Bounds and inputs                                                           *)

MaxBatch   == 3     \* columns of a sheet
MaxHistory == 1     \* entries of learn_history in custom.json
MaxText    == 4     \* characters of a column name given to the tokenizer alone
MaxPhrases == 2     \* entries of the phrase dictionary given to the tokenizer alone
MaxSamples == 4     \* sample values drawn freely for _infer_type_from_samples
MaxValidated == 2   \* entries of a list given to batch_validate

FileDesc(k) == <<k, " (file)">>

(* field_mappings/insurance.json: two learned names *)
InsuranceFile ==
    [name   |-> "insurance",
     config |-> [mappings |->
        << [key |-> <<20445, 38505, 37329, 39069>>,                 \* 保险金额
            val |-> [en_name |-> "amount", group |-> "finance", dtype |-> "number",
                     description |-> FileDesc(<<20445, 38505, 37329, 39069>>)]],
           [key |-> <<20445, 39069>>,                               \* 保额
            val |-> [en_name |-> "amount_1", group |-> "finance", dtype |-> "number",
                     description |-> FileDesc(<<20445, 39069>>)]] >>,
        learn_history |-> <<>>]]

(* field_mappings/custom.json written by hand: one entry without a group, and  *)
(* one that overrides insurance.json                                           *)
CustomFile ==
    [name   |-> "custom",
     config |-> [mappings |->
        << [key |-> <<37329, 39069, 21512, 35745>>,                 \* 金额合计
            val |-> [en_name |-> "amount", dtype |-> "number",
                     description |-> FileDesc(<<37329, 39069, 21512, 35745>>)]],
           [key |-> <<20445, 39069>>,                               \* 保额
            val |-> [en_name |-> "amount_1", group |-> "product", dtype |-> "number",
                     description |-> FileDesc(<<20445, 39069>>)]] >>,
        learn_history |-> <<>>]]

(* field_mappings/premium.json: two phrases with long canonical names, and a   *)
(* key that users teach as well                                                *)
PremiumFile ==
    [name   |-> "premium",
     config |-> [mappings |->
        << [key |-> <<32047, 35745, 31614, 21333, 20445, 36153>>,   \* 累计签单保费
            val |-> [en_name |-> "accumulated_signing_premium_amount", group |-> "finance",
                     dtype |-> "number",
                     description |-> FileDesc(<<32047, 35745, 31614, 21333, 20445, 36153>>)]],
           [key |-> <<21830, 19994, 38505>>,                        \* 商业险
            val |-> [en_name |-> "commercial_insurance", group |-> "product",
                     dtype |-> "string",
                     description |-> FileDesc(<<21830, 19994, 38505>>)]],
           [key |-> <<37329, 39069>>,                               \* 金额
            val |-> [en_name |-> "total_amount", group |-> "finance", dtype |-> "number",
                     description |-> FileDesc(<<37329, 39069>>)]] >>,
        learn_history |-> <<>>]]

(* the mappings directories the model starts from; glob('*.json') yields the    *)
(* files in the order of the directory, which is not sorted.  One directory    *)
(* holds broken.json, which is no JSON text, and one holds partial.json, whose *)
(* entry has no en_name                                                        *)
InitialFiles ==
    { <<>>, <<InsuranceFile>>, <<InsuranceFile, CustomFile>>, <<CustomFile, InsuranceFile>>,
      <<PremiumFile>>, <<CustomFile, PremiumFile>>,
      << [name |-> "broken", text |-> "{"], InsuranceFile >>,
      << [name   |-> "partial",
          config |-> [mappings |->
             << [key |-> <<37329, 39069>>,                          \* 金额
                 val |-> [group |-> "finance", dtype |-> "number"]] >>,
             learn_history |-> <<>>]],
         InsuranceFile >> }

NumberSamples == << [na |-> FALSE, s |-> <<49, 50, 48, 48, 46, 53>>],   \* 1200.5
                    [na |-> FALSE, s |-> <<45, 49, 48, 46, 48>>] >>     \* -10.0

Column(col, dtype, null_pct, numeric_stats, samples) ==
    [col |-> col, dtype |-> dtype, null_pct |-> null_pct,
     numeric_stats |-> numeric_stats, samples |-> samples]

(* the columns a sheet of the model is made of *)
Columns ==
    { Column(<<37329, 39069>>, "float64", 5, <<[min |-> -10]>>, NumberSamples),      \* 金额
      Column(<<20445, 38505, 37329, 39069>>, "float64", 0, <<[min |-> 0]>>, NumberSamples), \* 保险金额
      Column(<<37329, 39069, 21512, 35745>>, "int64", 0, <<[min |-> 0]>>, NumberSamples),   \* 金额合计
      Column(<<20445, 39069>>, "object", 0, <<>>, NumberSamples),                    \* 保额, numbers kept as text
      Column(<<22791, 27880>>, "object", 50, <<>>, <<>>) }                           \* 备注

(* numeric columns whose names hold rating, ratio and currency keywords, a     *)
(* column whose name holds two phrases of premium.json, and a column of dealer *)
(* groups; the model has them in sheets of one column                          *)
OverlayColumns ==
    { Column(<<78, 67, 68, 31995, 25968>>, "float64", 0, <<[min |-> 0]>>, NumberSamples),       \* NCD系数
      Column(<<23458, 25143, 35780, 20998>>, "int64", 0, <<[min |-> 0]>>, NumberSamples),         \* 客户评分
      Column(<<25240, 25187, 20445, 36153>>, "float64", 0, <<[min |-> 0]>>, NumberSamples),       \* 折扣保费
      Column(<<25240, 25187, 29575>>, "float64", 0, <<[min |-> 0]>>, NumberSamples),      \* 折扣率
      Column(<<21830, 19994, 38505, 32047, 35745, 31614, 21333, 20445, 36153>>, "float64", 0,
             <<[min |-> 0]>>, NumberSamples),                          \* 商业险累计签单保费
      Column(<<25152, 23646, 38598, 22242>>, "object", 0, <<>>, <<>>),                \* 所属集团
      Column(<<36180, 20184, 29575>>, "float64", 0, <<[min |-> 0]>>, NumberSamples) }  \* 赔付率

(* sheet_summary is a dict: the column names of a sheet are distinct *)
Sheets ==
    UNION { {b \in [1..n -> Columns] : \A i, j \in 1..n : i # j => b[i].col # b[j].col}
            : n \in 1..MaxBatch }
    \cup { <<c>> : c \in OverlayColumns }

(* what a user types into the interactive analyzer *)
CustomInputs ==
    { [cn_field |-> <<22791, 27880>>, en_name |-> "remark", group |-> "general",      \* 备注
       dtype |-> "string", description |-> <<>>],
      [cn_field |-> <<37329, 39069>>, en_name |-> "amount",                           \* 金额
       group |-> "finance", dtype |-> "number",
       description |-> <<<<37329, 39069>>, " (typed)">>] }

(* abs(hash(field_name)) % 10000: Python salts str hashes per process *)
HashValues == {7, 1234}

(* test_cases of test_project.py: field name, expected group, expected type   *)
test_cases ==
    {
      [field_name |-> <<20445, 21333, 21495>>, group |-> "policy", dtype |-> "string"],   \* 保单号
      [field_name |-> <<31614, 21333, 20445, 36153>>, group |-> "finance", dtype |-> "number"],   \* 签单保费
      [field_name |-> <<21830, 19994, 38505, 20445, 36153>>, group |-> "finance", dtype |-> "number"],   \* 商业险保费
      [field_name |-> <<20132, 24378, 38505, 20445, 36153>>, group |-> "finance", dtype |-> "number"],   \* 交强险保费
      [field_name |-> <<24635, 36180, 27454>>, group |-> "finance", dtype |-> "number"],   \* 总赔款
      [field_name |-> <<26696, 22343, 36180, 27454>>, group |-> "finance", dtype |-> "number"],   \* 案均赔款
      [field_name |-> <<25163, 32493, 36153>>, group |-> "finance", dtype |-> "number"],   \* 手续费
      [field_name |-> <<36153, 29992, 29575>>, group |-> "finance", dtype |-> "number"],   \* 费用率
      [field_name |-> <<36180, 20184, 29575>>, group |-> "finance", dtype |-> "number"],   \* 赔付率
      [field_name |-> <<78, 67, 68, 31995, 25968>>, group |-> "finance", dtype |-> "number"],   \* NCD系数
      [field_name |-> <<19977, 32423, 26426, 26500>>, group |-> "organization", dtype |-> "string"],   \* 三级机构
      [field_name |-> <<22235, 32423, 26426, 26500>>, group |-> "organization", dtype |-> "string"],   \* 四级机构
      [field_name |-> <<19994, 21153, 21592>>, group |-> "organization", dtype |-> "string"],   \* 业务员
      [field_name |-> <<38144, 21806, 28192, 36947>>, group |-> "organization", dtype |-> "string"],   \* 销售渠道
      [field_name |-> <<36710, 29260, 21495, 30721>>, group |-> "vehicle", dtype |-> "string"],   \* 车牌号码
      [field_name |-> <<36710, 26550, 21495>>, group |-> "vehicle", dtype |-> "string"],   \* 车架号
      [field_name |-> <<36710, 22411>>, group |-> "vehicle", dtype |-> "string"],   \* 车型
      [field_name |-> <<26032, 26087, 36710>>, group |-> "vehicle", dtype |-> "string"],   \* 新旧车
      [field_name |-> <<24231, 20301, 25968>>, group |-> "vehicle", dtype |-> "number"],   \* 座位数
      [field_name |-> <<36710, 40836>>, group |-> "vehicle", dtype |-> "number"],   \* 车龄
      [field_name |-> <<38505, 31181>>, group |-> "product", dtype |-> "string"],   \* 险种
      [field_name |-> <<20445, 39069>>, group |-> "product", dtype |-> "number"],   \* 保额
      [field_name |-> <<25237, 20445, 20154>>, group |-> "customer", dtype |-> "string"],   \* 投保人
      [field_name |-> <<34987, 20445, 38505, 20154>>, group |-> "customer", dtype |-> "string"],   \* 被保险人
      [field_name |-> <<35777, 20214, 21495, 30721>>, group |-> "customer", dtype |-> "string"],   \* 证件号码
      [field_name |-> <<20445, 38505, 36215, 26399>>, group |-> "time", dtype |-> "datetime"],   \* 保险起期
      [field_name |-> <<20445, 38505, 27490, 26399>>, group |-> "time", dtype |-> "datetime"],   \* 保险止期
      [field_name |-> <<30830, 35748, 26102, 38388>>, group |-> "time", dtype |-> "datetime"],   \* 确认时间
      [field_name |-> <<31614, 21333, 26102, 38388>>, group |-> "time", dtype |-> "datetime"],   \* 签单时间
      [field_name |-> <<26159, 21542, 32493, 20445>>, group |-> "flag", dtype |-> "boolean"],   \* 是否续保
      [field_name |-> <<26159, 21542, 26032, 33021, 28304>>, group |-> "flag", dtype |-> "boolean"],   \* 是否新能源
      [field_name |-> <<20445, 21333, 29366, 24577>>, group |-> "general", dtype |-> "string"],   \* 保单状态
      [field_name |-> <<39118, 38505, 35780, 20998>>, group |-> "general", dtype |-> "number"]    \* 风险评分
    }

(* field names given to AIFieldMapper directly: the names of test_cases and    *)
(* the names below                                                             *)
MapperNames ==
    {tc.field_name : tc \in test_cases} \cup
    {
      <<20445, 21333, 21495>>, <<31614, 21333, 20445, 36153>>, <<20445, 36153>>,   \* 保单号 签单保费 保费
      <<23454, 25910, 20445, 36153>>, <<32047, 35745, 31614, 21333, 20445, 36153>>, <<26412, 24180, 24635, 36180, 27454>>,   \* 实收保费 累计签单保费 本年总赔款
      <<25237, 20445, 26102, 38388>>, <<39318, 27425, 25253, 26696, 26102, 38388>>, <<20445, 36153, 25910, 20837>>,   \* 投保时间 首次报案时间 保费收入
      <<37329, 39069>>, <<32047, 35745, 20445, 36153>>, <<36710, 22411, 21495>>,   \* 金额 累计保费 车型号
      <<36710, 20445, 36153, 22411, 21495>>, <<22791, 27880>>, <<78, 67, 68, 31995, 25968>>,   \* 车保费型号 备注 NCD系数
      <<19977, 32423, 26426, 26500>>, <<26159, 21542, 32493, 20445>>, <<23458, 25143, 28385, 24847, 24230, 35780, 20998>>,   \* 三级机构 是否续保 客户满意度评分
      <<36153, 29992, 37329, 39069>>, <<20445, 36153, 40, 19975, 41>>, <<36710, 36742, 36141, 32622, 20215, 26684>>,   \* 费用金额 保费(万) 车辆购置价格
      <<32852, 31995, 30005, 35805>>, <<65, 66, 67>>, <<21830, 19994, 38505, 31181>>,   \* 联系电话 ABC 商业险种
      <<28192, 36947, 31614, 21333, 20445, 36153>>, <<26159, 21542, 20986, 38505, 26102, 38388>>, <<36710, 29260, 21495, 30721, 26102, 38388>>,   \* 渠道签单保费 是否出险时间 车牌号码时间
      <<26159, 21542, 29702, 36180>> }   \* 是否理赔

(* sample values given to _infer_type_from_samples directly: a missing value,  *)
(* a date, a number with a thousands separator, and boolean words in several   *)
(* spellings                                                                   *)
Sample(s) == [na |-> FALSE, s |-> s]
SampleValues ==
    { [na |-> TRUE, s |-> <<110, 97, 110>>],
      Sample(<<50, 48, 50, 52, 45, 49, 45, 53>>),      \* 2024-1-5
      Sample(<<49, 44, 53>>),      \* 1,5
      Sample(<<89>>),      \* Y
      Sample(<<32, 121>>),      \* ' y'
      Sample(<<78>>),      \* N
      Sample(<<49>>) }     \* 1

Repeat(v, n) == [i \in 1..n |-> v]

(* longer lists: around the 80% mark of 5 and of 20 values, more than 20       *)
(* values, and the other two date patterns                                     *)
LongSamples ==
    { Repeat(Sample(<<49, 44, 53>>), 4) \o Repeat(Sample(<<89>>), 1),             \* 4 of 5 numeric
      Repeat(Sample(<<49, 44, 53>>), 16) \o Repeat(Sample(<<89>>), 4),            \* 16 of 20 numeric
      Repeat(Sample(<<49, 44, 53>>), 17) \o Repeat(Sample(<<89>>), 8),            \* 17 of the first 20
      Repeat(Sample(<<49, 44, 53>>), 15) \o Repeat(Sample(<<89>>), 5) \o Repeat(Sample(<<49, 44, 53>>), 5),  \* 15 of the first 20
      << Sample(<<89>>), Sample(<<53, 47, 49, 47, 50, 48, 50, 52>>) >>,     \* Y, 5/1/2024
      << Sample(<<49, 65292, 53>>), Sample(<<50, 48, 50, 52, 48, 49, 48, 53>>) >>,     \* 1，5 and 20240105
      << Sample(<<49, 65292, 53>>) >> }                \* 1，5


(* a small mapping store for generate_alias_from_cn alone: phrases over the    *)
(* letters A and B, canonical names x and y                                    *)
AliasItem(ph, tk) ==
    [key |-> ph,
     val |-> [en_name |-> tk, group |-> "general", dtype |-> "string",
              description |-> FileDesc(ph)]]
AliasStores ==
    UNION { {d \in [1..n -> {AliasItem(ph, tk) : ph \in { <<65>>, <<66>>, <<65, 66>>, <<66, 65>> }, tk \in {"x", "y"}}] :
                \A i, j \in 1..n : i # j => d[i].key # d[j].key}
            : n \in 1..MaxPhrases }

(* entries given to MappingValidator.validate_mapping *)
ValidatorSourceNames ==
    { <<25240, 25187, 31995, 25968, 26102, 38388>>,      \* 折扣系数时间
      <<25237, 20445, 26102, 38388>>,      \* 投保时间
      <<20445, 36153>>,      \* 保费
      <<22791, 27880>>,      \* 备注
      <<26159, 21542, 32493, 20445>>,      \* 是否续保
      <<23458, 25143, 28385, 24847, 24230, 35780, 20998>>,      \* 客户满意度评分
      <<20445, 21333, 21495>> }     \* 保单号
ValidatorNames ==
    { Ascii("field_1"), Ascii("field_abc123"), Ascii("insure_time"), Ascii("premium"),
      Ascii("remark"), Ascii("is_renewal"), Ascii("customer_score"), Ascii("policy_number"),
      Ascii("Premium_"), <<>>,
      <<20445, 36153>> }     \* 保费
ValidatorEntries ==
    { [cn_name |-> cn, field_name |-> en, group |-> g, dtype |-> d,
       role |-> ra[1], aggregation |-> ra[2]] :
        cn \in ValidatorSourceNames, en \in ValidatorNames,
        g \in {"finance", "general", "time", "partner"},
        d \in {"string", "number", "datetime", "boolean"},
        ra \in {<<"measure", "sum">>, <<"measure", "avg">>, <<"dimension", "none">>} }

(* entries given to MappingValidator.batch_validate: entries with missing      *)
(* keys, with an empty and with a null canonical name, with a null source      *)
(* name, with groups the validator has no vocabulary for, and complete ones    *)
BatchEntries ==
    { [x \in {} |-> 0],                                                    \* {}
      [cn_name |-> <<20445, 36153>>],                                      \* 保费 alone
      [cn_name |-> <<20445, 36153>>, field_name |-> <<>>, group |-> "finance"],
      [cn_name |-> <<20445, 36153>>, field_name |-> None, group |-> "finance"],
      [cn_name |-> <<22791, 27880>>, field_name |-> None, group |-> "partner"],   \* 备注
      [cn_name |-> None, field_name |-> Ascii("premium"), group |-> "finance"],
      [cn_name |-> <<20445, 36153>>, field_name |-> Ascii("premium_yuan"), group |-> "finance",
       dtype |-> "number", role |-> "measure", aggregation |-> "sum"],
      [cn_name |-> <<25240, 25187, 31995, 25968, 26102, 38388>>,          \* 折扣系数时间
       field_name |-> Ascii("field_1"), group |-> "finance",
       dtype |-> "number", role |-> "measure", aggregation |-> "sum"],
      [cn_name |-> <<23458, 25143, 21517, 31216>>,                         \* 客户名称
       field_name |-> Ascii("customer_name"), group |-> "customer",
       dtype |-> "string", role |-> "dimension", aggregation |-> "none"],
      [cn_name |-> <<20445, 21333, 21495>>,                                \* 保单号
       field_name |-> Ascii("policy_number"), group |-> "policy",
       dtype |-> "string", role |-> "dimension", aggregation |-> "none"],
      [cn_name |-> <<36710, 26550, 21495>>,                                \* 车架号
       field_name |-> Ascii("vin"), group |-> "vehicle",
       dtype |-> "string", role |-> "dimension", aggregation |-> "none"] }

NoCall == [called |-> FALSE]

-----------------------------------------------------------------------------
(* The ways the library is used: an analyzer session (ExcelAnalyzer() on a     *)
(* mappings directory, analyze_excel, the interactive analyzer's teaching), a  *)
(* call of AIFieldMapper on one field, a call of _infer_type_from_samples on   *)
(* one list of samples, a call of generate_alias_from_cn on one column name,   *)
(* and a call of MappingValidator.validate_mapping on one entry.               *)

(* ExcelAnalyzer(skill_dir), lines 142-147: the manager loads the files, then  *)
(* the phrase dictionary is taken from it; an exception of the latter leaves   *)
(* no analyzer: pc = aborted.  The directories that hold premium.json,        *)
(* broken.json or partial.json are used with the sheets of one column          *)
InitAnalyzer ==
    /\ files \in InitialFiles
    /\ combined_mappings = load_all_mappings(<<>>, files)
    /\ IF PhraseDictRaises(combined_mappings)
       THEN phrase_to_token = <<>> /\ pc = "aborted"
       ELSE phrase_to_token = get_phrase_to_token_dict(combined_mappings) /\ pc = "ready"
    /\ AI_MAPPER_AVAILABLE \in BOOLEAN
    /\ writable \in BOOLEAN
    /\ sheet_summary \in IF \A i \in 1..Len(files) : files[i] \in {InsuranceFile, CustomFile}
                         THEN Sheets
                         ELSE { <<c>> : c \in OverlayColumns }
    /\ field_map = <<>>
    /\ unknown_fields = <<>>
    /\ learned_mappings = <<>>
    /\ first_map = <<>>
    /\ first_store = <<>>
    /\ af = NoCall
    /\ ga = NoCall
    /\ vm = NoCall
    /\ bv = NoCall

InitMapper ==
    /\ files = <<>>
    /\ combined_mappings = <<>>
    /\ phrase_to_token = <<>>
    /\ AI_MAPPER_AVAILABLE = TRUE
    /\ writable = FALSE
    /\ pc = "mapper"
    /\ sheet_summary = <<>>
    /\ field_map = <<>>
    /\ unknown_fields = <<>>
    /\ learned_mappings = <<>>
    /\ first_map = <<>>
    /\ first_store = <<>>
    /\ af \in {[called |-> FALSE, field_name |-> n, sample_values |-> s, h |-> h] :
                  n \in MapperNames,
                  s \in { <<>>,
                          NumberSamples,
                          << [na |-> FALSE,
                              s |-> <<50, 48, 50, 52, 45, 48, 49, 45, 48, 53>>] >>,   \* 2024-01-05
                          << [na |-> FALSE, s |-> <<26159>>],
                             [na |-> FALSE, s |-> <<21542>>] >> },                    \* 是 否
                  h \in HashValues}
    /\ ga = NoCall
    /\ vm = NoCall
    /\ bv = NoCall

InitInfer ==
    /\ files = <<>>
    /\ combined_mappings = <<>>
    /\ phrase_to_token = <<>>
    /\ AI_MAPPER_AVAILABLE = TRUE
    /\ writable = FALSE
    /\ pc = "infer"
    /\ sheet_summary = <<>>
    /\ field_map = <<>>
    /\ unknown_fields = <<>>
    /\ learned_mappings = <<>>
    /\ first_map = <<>>
    /\ first_store = <<>>
    /\ af \in {[called |-> FALSE, sample_values |-> s] : s \in (UNION { [1..n -> SampleValues] : n \in 0..MaxSamples } \cup LongSamples)}
    /\ ga = NoCall
    /\ vm = NoCall
    /\ bv = NoCall

InitAlias ==
    /\ \E d \in AliasStores :
         files = << [name |-> "custom", config |-> [mappings |-> d, learn_history |-> <<>>]] >>
    /\ combined_mappings = load_all_mappings(<<>>, files)
    /\ phrase_to_token = get_phrase_to_token_dict(combined_mappings)
    /\ AI_MAPPER_AVAILABLE = FALSE
    /\ writable = FALSE
    /\ pc = "alias"
    /\ sheet_summary = <<>>
    /\ field_map = <<>>
    /\ unknown_fields = <<>>
    /\ learned_mappings = <<>>
    /\ first_map = <<>>
    /\ first_store = <<>>
    /\ af = NoCall
    /\ ga \in {[called |-> FALSE, col |-> t] : t \in (UNION { [1..n -> {65, 66}] : n \in 1..MaxText })}
    /\ vm = NoCall
    /\ bv = NoCall

InitValidator ==
    /\ files = <<>>
    /\ combined_mappings = <<>>
    /\ phrase_to_token = <<>>
    /\ AI_MAPPER_AVAILABLE = FALSE
    /\ writable = FALSE
    /\ pc = "validator"
    /\ sheet_summary = <<>>
    /\ field_map = <<>>
    /\ unknown_fields = <<>>
    /\ learned_mappings = <<>>
    /\ first_map = <<>>
    /\ first_store = <<>>
    /\ af = NoCall
    /\ ga = NoCall
    /\ vm \in {[called |-> FALSE, mapping |-> e] : e \in ValidatorEntries}
    /\ bv = NoCall

InitBatch ==
    /\ files = <<>>
    /\ combined_mappings = <<>>
    /\ phrase_to_token = <<>>
    /\ AI_MAPPER_AVAILABLE = FALSE
    /\ writable = FALSE
    /\ pc = "batch"
    /\ sheet_summary = <<>>
    /\ field_map = <<>>
    /\ unknown_fields = <<>>
    /\ learned_mappings = <<>>
    /\ first_map = <<>>
    /\ first_store = <<>>
    /\ af = NoCall
    /\ ga = NoCall
    /\ vm = NoCall
    /\ bv \in {[called |-> FALSE, mappings |-> l] : l \in (UNION { [1..n -> BatchEntries] : n \in 0..MaxValidated })}

Init == InitAnalyzer \/ InitMapper \/ InitInfer \/ InitAlias \/ InitValidator \/ InitBatch

(* no analyze_excel call is running *)
Returned == {"ready", "done", "failed"}

(* analyze_excel up to the first build_field_mapping (line 510) *)
AnalyzeBegin ==
    /\ pc \in Returned
    /\ LET b == build_field_mapping(combined_mappings, phrase_to_token, sheet_summary)
       IN  /\ field_map' = b.mapping
           /\ unknown_fields' = b.unknown_fields
           /\ first_map' = b.mapping
    /\ first_store' = combined_mappings
    /\ learned_mappings' = <<>>
    /\ pc' = "built"
    /\ UNCHANGED <<files, combined_mappings, phrase_to_token, AI_MAPPER_AVAILABLE,
                   writable, sheet_summary, af, ga, vm, bv>>

(* lines 513-527: batch_learn_fields on the unknown fields *)
BatchLearn ==
    /\ pc = "built"
    /\ unknown_fields # <<>> /\ AI_MAPPER_AVAILABLE
    /\ \E hash_of \in [1..Len(unknown_fields) -> HashValues] :
         LET samples(field) ==
                 sheet_summary[CHOOSE i \in 1..Len(sheet_summary) :
                                   sheet_summary[i].col = field].samples
             mappings == batch_analyze_fields(unknown_fields,
                             [i \in 1..Len(unknown_fields) |-> samples(unknown_fields[i])],
                             hash_of)
             st == LearnLoop([store |-> combined_mappings, files |-> files, failed |-> FALSE],
                             mappings, writable)
         IN  /\ combined_mappings' = st.store
             /\ files' = st.files
             /\ IF st.failed
                THEN pc' = "failed" /\ UNCHANGED learned_mappings    \* except Exception
                ELSE pc' = "learned" /\ learned_mappings' = mappings
    /\ UNCHANGED <<phrase_to_token, AI_MAPPER_AVAILABLE, writable, sheet_summary,
                   field_map, unknown_fields, first_map, first_store, af, ga, vm, bv>>

(* lines 526-530: the second build_field_mapping *)
Rebuild ==
    /\ pc = "learned"
    /\ LET b == build_field_mapping(combined_mappings, phrase_to_token, sheet_summary)
       IN  /\ field_map' = b.mapping
           /\ unknown_fields' = b.unknown_fields
    /\ pc' = "done"
    /\ UNCHANGED <<files, combined_mappings, phrase_to_token, AI_MAPPER_AVAILABLE,
                   writable, sheet_summary, learned_mappings, first_map, first_store, af, ga, vm, bv>>

(* line 513 false: nothing to learn, or no AI mapper *)
SkipLearn ==
    /\ pc = "built"
    /\ ~(unknown_fields # <<>> /\ AI_MAPPER_AVAILABLE)
    /\ pc' = "done"
    /\ UNCHANGED <<files, combined_mappings, phrase_to_token, AI_MAPPER_AVAILABLE,
                   writable, sheet_summary, field_map, unknown_fields, learned_mappings,
                   first_map, first_store, af, ga, vm, bv>>

(* what analyze_excel hands to its caller: the dict it returns (lines 573-593; *)
(* the except branch returns success and a message only) and the field map it *)
(* wrote to json_path at line 532, <<>> when it did not get there              *)
AnalyzeExcelOutcome ==
    IF pc = "done"
    THEN [returned |-> TRUE, success |-> TRUE, unknown_fields |-> <<unknown_fields>>,
          json |-> <<field_map>>]
    ELSE IF pc = "failed"
    THEN [returned |-> TRUE, success |-> FALSE, unknown_fields |-> <<>>, json |-> <<>>]
    ELSE [returned |-> FALSE]

(* interactive_analyzer.py:109: the user teaches one mapping.  The results of  *)
(* the last analyze_excel call are dropped when the session goes on:           *)
(* field_map, unknown_fields and learned_mappings are its locals               *)
AddCustom ==
    /\ pc \in Returned
    /\ writable
    /\ CustomIndex(files) # 0 =>
           Len(files[CustomIndex(files)].config.learn_history) < MaxHistory
    /\ \E e \in CustomInputs :
         LET a == add_custom_mapping([store |-> combined_mappings, files |-> files],
                      e.cn_field, e.en_name, e.group, e.dtype,
                      CustomDescription(e.cn_field, e.description))
         IN  /\ combined_mappings' = a.store
             /\ files' = a.files
    /\ pc' = "ready"
    /\ field_map' = <<>>
    /\ unknown_fields' = <<>>
    /\ learned_mappings' = <<>>
    /\ first_map' = <<>>
    /\ first_store' = <<>>
    /\ UNCHANGED <<phrase_to_token, AI_MAPPER_AVAILABLE, writable, sheet_summary, af, ga, vm, bv>>

(* interactive_analyzer.py:125: a new ExcelAnalyzer() on the same directory *)
NewAnalyzer ==
    /\ pc \in Returned
    /\ combined_mappings' = load_all_mappings(<<>>, files)
    /\ IF PhraseDictRaises(load_all_mappings(<<>>, files))
       THEN phrase_to_token' = <<>> /\ pc' = "aborted"
       ELSE phrase_to_token' = get_phrase_to_token_dict(load_all_mappings(<<>>, files))
                /\ pc' = "ready"
    /\ field_map' = <<>>
    /\ unknown_fields' = <<>>
    /\ learned_mappings' = <<>>
    /\ first_map' = <<>>
    /\ first_store' = <<>>
    /\ UNCHANGED <<files, AI_MAPPER_AVAILABLE, writable, sheet_summary, af, ga, vm, bv>>

(* AIFieldMapper().analyze_field(field_name, sample_values) *)
AnalyzeField ==
    /\ pc = "mapper"
    /\ ~af.called
    /\ af' = [called |-> TRUE, op |-> "analyze_field", field_name |-> af.field_name,
              sample_values |-> af.sample_values, h |-> af.h,
              result |-> analyze_field(af.field_name, af.sample_values, af.h)]
    /\ UNCHANGED <<files, combined_mappings, phrase_to_token, AI_MAPPER_AVAILABLE, writable,
                   pc, sheet_summary, field_map, unknown_fields, learned_mappings,
                   first_map, first_store, ga, vm, bv>>

(* AIFieldMapper()._translate_keywords(field_name): the tokens returned and    *)
(* the local `remaining` at the end of the loop                                *)
TranslateKeywords ==
    /\ pc = "mapper"
    /\ ~af.called
    /\ af' = [called |-> TRUE, op |-> "translate_keywords", field_name |-> af.field_name,
              sample_values |-> af.sample_values, h |-> af.h,
              tokens |-> TranslateState(af.field_name).tokens,
              remaining |-> TranslateState(af.field_name).remaining]
    /\ UNCHANGED <<files, combined_mappings, phrase_to_token, AI_MAPPER_AVAILABLE, writable,
                   pc, sheet_summary, field_map, unknown_fields, learned_mappings,
                   first_map, first_store, ga, vm, bv>>

(* AIFieldMapper()._infer_type_from_samples(sample_values) *)
InferType ==
    /\ pc = "infer"
    /\ ~af.called
    /\ af' = [called |-> TRUE, op |-> "infer_type_from_samples",
              sample_values |-> af.sample_values,
              result |-> infer_type_from_samples(af.sample_values)]
    /\ UNCHANGED <<files, combined_mappings, phrase_to_token, AI_MAPPER_AVAILABLE, writable,
                   pc, sheet_summary, field_map, unknown_fields, learned_mappings,
                   first_map, first_store, ga, vm, bv>>

(* ExcelAnalyzer.generate_alias_from_cn(col): the pair returned, and the       *)
(* locals `tokens` and `text` at the end of the phrase loop (exact is true     *)
(* when line 268 returned before the loop)                                     *)
GenerateAlias ==
    /\ pc = "alias"
    /\ ~ga.called
    /\ LET r == generate_alias_from_cn(combined_mappings, phrase_to_token, ga.col)
           exact == Truthy(get_mapping(combined_mappings, ga.col))
           st == AliasState(phrase_to_token, ga.col)
       IN  ga' = [called |-> TRUE, col |-> ga.col, name |-> r.name, found |-> r.found,
                  exact  |-> exact,
                  tokens |-> IF exact THEN <<>> ELSE st.tokens,
                  text   |-> IF exact THEN ga.col ELSE st.text]
    /\ UNCHANGED <<files, combined_mappings, phrase_to_token, AI_MAPPER_AVAILABLE, writable,
                   pc, sheet_summary, field_map, unknown_fields, learned_mappings,
                   first_map, first_store, af, vm, bv>>

(* MappingValidator().validate_mapping(mapping) *)
ValidateMapping ==
    /\ pc = "validator"
    /\ ~vm.called
    /\ vm' = [called |-> TRUE, mapping |-> vm.mapping, result |-> validate_mapping(vm.mapping)]
    /\ UNCHANGED <<files, combined_mappings, phrase_to_token, AI_MAPPER_AVAILABLE, writable,
                   pc, sheet_summary, field_map, unknown_fields, learned_mappings,
                   first_map, first_store, af, ga, bv>>

(* MappingValidator().batch_validate(mappings): what it returns, or that it    *)
(* raised                                                                      *)
BatchValidate ==
    /\ pc = "batch"
    /\ ~bv.called
    /\ bv' = [called |-> TRUE, mappings |-> bv.mappings, result |-> batch_validate(bv.mappings)]
    /\ UNCHANGED <<files, combined_mappings, phrase_to_token, AI_MAPPER_AVAILABLE, writable,
                   pc, sheet_summary, field_map, unknown_fields, learned_mappings,
                   first_map, first_store, af, ga, vm>>

Next ==
    \/ AnalyzeBegin
    \/ BatchLearn
    \/ Rebuild
    \/ SkipLearn
    \/ AddCustom
    \/ NewAnalyzer
    \/ AnalyzeField
    \/ TranslateKeywords
    \/ InferType
    \/ GenerateAlias
    \/ ValidateMapping
    \/ BatchValidate

Spec == Init /\ [][Next]_vars

-----------------------------------------------------------------------------
(* MappingValidator.check_naming_convention, line 101: the names it flags as   *)
(* placeholders                                                                *)
IsPlaceholder(en_name) ==
    en_name \in {"field", "unknown_field"} \/ StrStartsWith(en_name, "field_")

-----------------------------------------------------------------------------
(* Properties                                                                  *)
(* field_map is the list build_field_mapping returned last: at pc = "built"    *)
(* the first one of analyze_excel, at pc = "done" the one analyze_excel writes *)
(* out.  In both states it was built from combined_mappings, phrase_to_token   *)
(* and sheet_summary as they are.                                              *)

(* C1: the field_name values of the entries build_field_mapping returns are    *)
(* pairwise distinct, whatever the candidate names are.                        *)
C1_FieldNamesDistinct ==
    pc \in {"built", "done"} =>
        \A i, j \in 1..Len(field_map) :
            i # j => field_map[i].field_name # field_map[j].field_name

(* C2: the entries come in batch order; the first occurrence of a candidate    *)
(* name keeps it, and the k-th later occurrence of the same candidate is named *)
(* <candidate>_<k>.                                                            *)
C2_SuffixByOccurrence ==
    pc \in {"built", "done"} =>
        /\ Len(field_map) = Len(sheet_summary)
        /\ \A i \in 1..Len(field_map) :
              LET cand(j) == Candidate(combined_mappings, phrase_to_token,
                                       sheet_summary[j].col).name
                  k == Cardinality({j \in 1..(i - 1) : cand(j) = cand(i)})
              IN  /\ field_map[i].source_column = sheet_summary[i].col
                  /\ field_map[i].field_name =
                        IF k = 0 THEN cand(i) ELSE cand(i) \o "_" \o ToString(k)

(* C2 is exercised: a third column with the candidate amount is named amount_2 *)
C2_ThirdOccurrence ==
    /\ pc \in {"built", "done"}
    /\ Len(field_map) = 3
    /\ field_map[1].field_name = "amount"
    /\ field_map[2].field_name = "amount_1"
    /\ field_map[3].field_name = "amount_2"

(* C3 as stated: the entry of a column whose name is a key of the store        *)
(* carries the stored canonical name, group, kind and description unchanged,   *)
(* with is_mapped = true; analyze_field returns the entry of its exact table   *)
(* whatever the samples are.                                                   *)
C3_StoredEntryVerbatim ==
    /\ pc \in {"built", "done"} =>
          \A i \in 1..Len(field_map) :
              LET col == sheet_summary[i].col
                  x   == DictIndex(combined_mappings, col)
              IN  x # 0 =>
                    LET v == combined_mappings[x].val
                    IN  /\ field_map[i].is_mapped
                        /\ field_map[i].field_name = v.en_name
                        /\ "group" \in DOMAIN v => field_map[i].group = v.group
                        /\ "dtype" \in DOMAIN v => field_map[i].dtype = v.dtype
                        /\ "description" \in DOMAIN v =>
                              field_map[i].description = v.description
    /\ af.called /\ af.op = "analyze_field" =>
          \A x \in 1..Len(exact_mappings) :
              exact_mappings[x].key = af.field_name =>
                  af.result = [en_name     |-> exact_mappings[x].en_name,
                               group       |-> exact_mappings[x].group,
                               dtype       |-> exact_mappings[x].dtype,
                               description |-> <<af.field_name, " (exact match)">>]

(* C3, amended: the entry of a column whose name is a key of the store has     *)
(* is_mapped = true and carries the stored group, kind and description         *)
(* unchanged (an entry stored without a group gets derive_group of the column  *)
(* name, one without a kind the kind of the column's dtype); its field_name is *)
(* the stored canonical name when no earlier column of the batch has the same  *)
(* candidate name, and the stored name with the suffix _<k> after k such       *)
(* columns.  analyze_field returns the entry of its exact table whatever the   *)
(* samples are.                                                                *)
C3_StoredEntryCarried ==
    /\ pc \in {"built", "done"} =>
          \A i \in 1..Len(field_map) :
              LET col == sheet_summary[i].col
                  x   == DictIndex(combined_mappings, col)
              IN  x # 0 =>
                    LET v == combined_mappings[x].val
                        k == Cardinality({j \in 1..(i - 1) :
                                 Candidate(combined_mappings, phrase_to_token,
                                           sheet_summary[j].col).name = v.en_name})
                    IN  /\ field_map[i].is_mapped
                        /\ field_map[i].field_name =
                              IF k = 0 THEN v.en_name ELSE v.en_name \o "_" \o ToString(k)
                        /\ field_map[i].group =
                              IF "group" \in DOMAIN v THEN v.group ELSE derive_group(col)
                        /\ field_map[i].dtype =
                              IF "dtype" \in DOMAIN v THEN v.dtype
                              ELSE dtype_to_kind(sheet_summary[i].dtype)
                        /\ field_map[i].description =
                              IF "description" \in DOMAIN v THEN v.description
                              ELSE <<col, "">>
    /\ af.called /\ af.op = "analyze_field" =>
          \A x \in 1..Len(exact_mappings) :
              exact_mappings[x].key = af.field_name =>
                  af.result = [en_name     |-> exact_mappings[x].en_name,
                               group       |-> exact_mappings[x].group,
                               dtype       |-> exact_mappings[x].dtype,
                               description |-> <<af.field_name, " (exact match)">>]

(* C3 is exercised: a stored entry without a group, whose stored name an       *)
(* earlier column of the sheet has too                                         *)
C3_StoredNameSuffixed ==
    /\ pc = "built"
    /\ \E i \in 1..Len(field_map) :
          LET x == DictIndex(combined_mappings, sheet_summary[i].col)
          IN  /\ x # 0
              /\ "group" \notin DOMAIN combined_mappings[x].val
              /\ field_map[i].field_name = combined_mappings[x].val.en_name \o "_1"

C5_SingleBestRule ==
    (af.called /\ af.op = "analyze_field" /\ ExactIndex(af.field_name) = 0) =>
        LET D == keyword_patterns_declared
            M == {i \in 1..Len(D) : RuleMatches(D[i], af.field_name)}
            best == CHOOSE i \in M : \A j \in M :
                        \/ D[i].priority > D[j].priority
                        \/ D[i].priority = D[j].priority /\ i <= j
            group == IF M = {} THEN "general" ELSE D[best].group
            dtype == IF M = {} THEN "string" ELSE D[best].dtype
            term  == IF M = {} THEN <<>> ELSE D[best].term
        IN  /\ af.result.group = group
            /\ af.result.dtype = RefineType(af.field_name, dtype, af.sample_values)
            /\ af.result.en_name = ApplyConventions(RawName(af.field_name, term, af.h))

(* C5 is exercised: a name matched by rules of different priorities and by two *)
(* rules of the same priority that carry different tokens                      *)
C5_SeveralRulesMatch ==
    /\ af.called /\ af.op = "analyze_field" /\ ExactIndex(af.field_name) = 0
    /\ LET D == keyword_patterns_declared
           M == {i \in 1..Len(D) : RuleMatches(D[i], af.field_name)}
       IN  /\ \E i, j \in M : D[i].priority > D[j].priority /\ D[i].group # D[j].group
           /\ \E i, j \in M : i # j /\ D[i].priority = D[j].priority /\ D[i].term # D[j].term

(* C6: in the sorted rule table every compound-phrase rule stands before every *)
(* generic suffix rule whose trigger it contains, so a field name that matches *)
(* both is classified by the compound rule.                                    *)
C6_CompoundBeforeGeneric ==
    LET Generic(g) == Len(g.alts) = 1 /\ g.alts[1].e /\ ~g.alts[1].s
        Compound(c, g) ==
            /\ Len(c.alts) > 1
            /\ \A a \in 1..Len(c.alts) :
                  /\ Len(c.alts[a].lit) > Len(g.alts[1].lit)
                  /\ EndsWith(c.alts[a].lit, g.alts[1].lit)
    IN  /\ \A i, j \in 1..Len(keyword_patterns) :
              (Generic(keyword_patterns[j]) /\ Compound(keyword_patterns[i], keyword_patterns[j]))
                  => i < j
        /\ (af.called /\ af.op = "analyze_field" /\ ExactIndex(af.field_name) = 0) =>
              \A i, j \in 1..Len(keyword_patterns) :
                  ( /\ Generic(keyword_patterns[j])
                    /\ Compound(keyword_patterns[i], keyword_patterns[j])
                    /\ RuleMatches(keyword_patterns[i], af.field_name)
                    /\ RuleMatches(keyword_patterns[j], af.field_name) )
                  => FirstMatch(af.field_name) # j

(* C7: each tokenizer scans the phrases once, longest first, and for a phrase  *)
(* found in the remaining text appends its token unless already collected,     *)
(* then deletes the first occurrence of the phrase, and only that one, from    *)
(* the remaining text.                                                         *)
C7_ScanOnceDeleteFirst ==
    LET RECURSIVE Scan(_, _, _, _)
        Scan(tokens, text, phrases, i) ==
            LET hits == {j \in i..Len(phrases) : Contains(phrases[j].ph, text)}
            IN  IF hits = {} THEN [tokens |-> tokens, text |-> text]
                ELSE LET j == CHOOSE j \in hits : \A k \in hits : j <= k
                     IN  Scan(IF phrases[j].tk \in Range(tokens) THEN tokens
                              ELSE Append(tokens, phrases[j].tk),
                              RemoveFirst(phrases[j].ph, text), phrases, j + 1)
    IN  /\ (af.called /\ af.op = "translate_keywords") =>
              Scan(<<>>, af.field_name, sorted_keys, 1)
                  = [tokens |-> af.tokens, text |-> af.remaining]
        /\ (ga.called /\ ~ga.exact) =>
              Scan(<<>>, ga.col, SortedPhrases(phrase_to_token), 1)
                  = [tokens |-> ga.tokens, text |-> ga.text]

(* C8: the token of a dictionary phrase that occurs in the original name, at a *)
(* place where no other dictionary phrase of the same or a greater length      *)
(* overlaps it, is among the tokens the tokenizer returns.                     *)
C8_LongestPhraseKept ==
    LET Kept(dict, name, tokens) ==
            \A a \in 1..Len(dict) : \A p \in 1..Len(name) :
                ( /\ OccursAt(dict[a].ph, name, p)
                  /\ \A b \in (1..Len(dict)) \ {a} : \A q \in 1..Len(name) :
                        (Len(dict[b].ph) >= Len(dict[a].ph) /\ OccursAt(dict[b].ph, name, q))
                            => (q + Len(dict[b].ph) <= p \/ p + Len(dict[a].ph) <= q) )
                => dict[a].tk \in Range(tokens)
    IN  /\ (af.called /\ af.op = "translate_keywords") =>
              Kept(keyword_map, af.field_name, af.tokens)
        /\ (ga.called /\ ~ga.exact) => Kept(phrase_to_token, ga.col, ga.tokens)

(* C9: when the tokenizer collects no token (and no rule supplies one), the    *)
(* name returned is the sentinel "unresolved", never a placeholder the         *)
(* validator flags.                                                            *)
C9_UnresolvedSentinel ==
    /\ ( /\ af.called /\ af.op = "analyze_field"
         /\ ExactIndex(af.field_name) = 0
         /\ FirstMatch(af.field_name) = 0 \/ keyword_patterns[FirstMatch(af.field_name)].term = <<>>
         /\ translate_keywords(af.field_name) = <<>> )
       => (af.result.en_name = "unresolved" /\ ~IsPlaceholder(af.result.en_name))
    /\ (ga.called /\ ~ga.exact /\ ga.tokens = <<>>)
       => (ga.name = "unresolved" /\ ~IsPlaceholder(ga.name))

(* C10: when analyze_excel is done, a column for which no stage produces a     *)
(* canonical name (no store entry when the call began, no phrase of the        *)
(* dictionary, no exact-table entry, no rule token, no keyword) is in          *)
(* unknown_fields and its entry has is_mapped = false.                         *)
C10_UnresolvedReported ==
    pc = "done" =>
        \A i \in 1..Len(field_map) :
            LET col == sheet_summary[i].col
            IN  ( /\ DictIndex(first_store, col) = 0
                  /\ AliasState(phrase_to_token, col).tokens = <<>>
                  /\ ExactIndex(col) = 0
                  /\ FirstMatch(col) = 0 \/ keyword_patterns[FirstMatch(col)].term = <<>>
                  /\ translate_keywords(col) = <<>> )
                => (col \in Range(unknown_fields) /\ ~field_map[i].is_mapped)

(* C11: every result is refined by the samples and overlaid by the business    *)
(* rules whichever stage produced its name: the kind analyze_field returns is  *)
(* the name-derived kind after the sample-based refinement, for an exact hit   *)
(* as for a rule match or a tokenizer fallback, and the role and aggregation   *)
(* of every entry of build_field_mapping are those of the overlay.             *)
C11_RefinedWhateverPath ==
    /\ af.called /\ af.op = "analyze_field" =>
          af.result.dtype =
              RefineType(af.field_name, NameDtype(af.field_name), af.sample_values)
    /\ pc \in {"built", "done"} =>
          \A i \in 1..Len(field_map) :
              /\ field_map[i].role = RoleOf(sheet_summary[i].col, sheet_summary[i].dtype)
              /\ field_map[i].aggregation =
                    AggregationOf(sheet_summary[i].col, field_map[i].role)

(* C12: _infer_type_from_samples returns datetime whenever one of the          *)
(* non-missing samples is date-like (Y-M-D, D-M-Y or eight digits in a row),   *)
(* at whatever place of the list that sample stands.                           *)
C12_DateAnywhere ==
    af.called /\ af.op = "infer_type_from_samples" =>
        LET non_null == NonNull(af.sample_values)
        IN  (\E i \in 1..Len(non_null) : DateLike(non_null[i]))
                => af.result = "datetime"

(* C13: when there are non-missing samples and none is date-like, the result   *)
(* is boolean exactly when the set of the samples, trimmed and case-folded,    *)
(* has at most 3 elements and lies within the boolean vocabulary.              *)
C13_BooleanOnNormalized ==
    af.called /\ af.op = "infer_type_from_samples" =>
        LET non_null   == NonNull(af.sample_values)
            normalized == {Lower(Strip(non_null[i])) : i \in 1..Len(non_null)}
        IN  (Len(non_null) > 0 /\ \A i \in 1..Len(non_null) : ~DateLike(non_null[i]))
                => (af.result = "boolean"
                      <=> (Cardinality(normalized) <= 3 /\ normalized \subseteq boolean_indicators))

(* C14: when there are non-missing samples, none is date-like and they are not *)
(* boolean, the result is number exactly when at least 80% of the first        *)
(* min(20, n) of them parse as numbers once the thousands separators are       *)
(* removed (count * 5 >= 4 * min(20, n)), and string otherwise.                *)
C14_EightyPercent ==
    af.called /\ af.op = "infer_type_from_samples" =>
        LET non_null   == NonNull(af.sample_values)
            normalized == {Lower(Strip(non_null[i])) : i \in 1..Len(non_null)}
            head       == FirstN(non_null, 20)
            count      == Cardinality({i \in 1..Len(head) : ParsesAsFloat(NumericText(head[i]))})
        IN  ( /\ Len(non_null) > 0
              /\ \A i \in 1..Len(non_null) : ~DateLike(non_null[i])
              /\ ~(Cardinality(normalized) <= 3 /\ normalized \subseteq boolean_indicators) )
                => /\ af.result \in {"number", "string"}
                   /\ af.result = "number" <=> count * 5 >= 4 * Len(head)

(* C15: in analyze_field the samples make the kind number only when the        *)
(* name-derived kind is string and the field name contains a quantity keyword; *)
(* without such a keyword a kind of number is the name-derived one; a          *)
(* name-derived boolean stays; and a name-derived kind other than string is    *)
(* replaced by an inferred datetime or boolean only.                           *)
C15_NumberGatedByName ==
    af.called /\ af.op = "analyze_field" =>
        LET name_dtype == NameDtype(af.field_name)
            dtype      == af.result.dtype
            quantity   == \E kw \in number_keywords : Contains(kw, af.field_name)
        IN  /\ (dtype = "number" /\ dtype # name_dtype) => (name_dtype = "string" /\ quantity)
            /\ (dtype = "number" /\ ~quantity) => name_dtype = "number"
            /\ name_dtype = "boolean" => dtype = "boolean"
            /\ (name_dtype # "string" /\ dtype # name_dtype)
                  => /\ dtype \in {"datetime", "boolean"}
                     /\ dtype = infer_type_from_samples(af.sample_values)

(* C15 is exercised: numeric samples make a name with a quantity keyword and   *)
(* the name-derived kind string a number                                       *)
C15_NumberFromSamples ==
    /\ af.called /\ af.op = "analyze_field"
    /\ NameDtype(af.field_name) = "string"
    /\ \E kw \in number_keywords : Contains(kw, af.field_name)
    /\ infer_type_from_samples(af.sample_values) = "number"
    /\ af.result.dtype = "number"

(* the keyword lists of the overlay *)
RatioKeywords ==          \* 比例 折扣 系数 NCD 优待
    { <<27604, 20363>>, <<25240, 25187>>, <<31995, 25968>>, <<78, 67, 68>>, <<20248, 24453>> }
CurrencyKeywords ==       \* 保费 金额 费用 价格 赔款 手续费 税
    { <<20445, 36153>>, <<37329, 39069>>, <<36153, 29992>>, <<20215, 26684>>,
      <<36180, 27454>>, <<25163, 32493, 36153>>, <<31246>> }

(* C16: in every entry of build_field_mapping, role = measure exactly when the *)
(* entry's kind is number and the source name holds no rating, level or        *)
(* coefficient keyword; otherwise role = dimension.                            *)
C16_MeasureIffNumber ==
    pc \in {"built", "done"} =>
        \A i \in 1..Len(field_map) :
            LET e == field_map[i]
                rated == \E kw \in { <<35780, 20998>>, <<31561, 32423>>, <<20998, 25968>>, <<32423, 21035>>, <<31995, 25968>> } : Contains(kw, e.source_column)
            IN  /\ e.role \in {"measure", "dimension"}
                /\ e.role = "measure" <=> (e.dtype = "number" /\ ~rated)

C18_ScoreBounded ==
    vm.called => (0 <= vm.result.overall_score /\ vm.result.overall_score <= 100)

(* C19: the tier is excellent from 95, good from 80, fair from 65 and poor     *)
(* below, except that an entry with a critical issue is good where its score   *)
(* gives excellent; a canonical name field_abc123 gets a critical naming issue *)
(* and a tier of good or lower.                                                *)
C19_TierByScore ==
    vm.called =>
        LET r        == vm.result
            score    == r.overall_score
            critical == \E i \in 1..Len(r.issues) : r.issues[i].critical
        IN  /\ r.quality_level =
                  IF score >= 95 THEN (IF critical THEN "good" ELSE "excellent")
                  ELSE IF score >= 80 THEN "good"
                  ELSE IF score >= 65 THEN "fair"
                  ELSE "poor"
            /\ critical => r.quality_level # "excellent"
            /\ r.has_critical_issues = critical
            /\ r.en_name = Ascii("field_abc123")
                  => /\ \E i \in 1..Len(r.issues) :
                            r.issues[i].check = "naming" /\ r.issues[i].critical
                     /\ r.quality_level \in {"good", "fair", "poor"}

(* C19 is exercised: an entry with a critical issue and the score 80 has the   *)
(* tier good                                                                   *)
C19_CriticalIsGood ==
    /\ vm.called
    /\ \E i \in 1..Len(vm.result.issues) : vm.result.issues[i].critical
    /\ vm.result.overall_score = 80
    /\ vm.result.quality_level = "good"

(* C20: overall_score is max(0, 100 - D), D being the sum of the deductions of *)
(* all failed checks of the entry: naming, group, each semantic deduction,     *)
(* kind, role and aggregation.                                                 *)
C20_ScoreIsHundredMinusDeductions ==
    vm.called =>
        LET m  == vm.mapping
            cn == m.cn_name
            en == m.field_name
            D  == NamingDeduction(en) + GroupDeduction(cn, en, m.group)
                    + Sum(SemanticDeductions(cn, en))
                    + DtypeDeduction(cn, m.dtype, en)
                    + RoleDeduction(cn, m.dtype, m.role, m.aggregation)
        IN  vm.result.overall_score = Max(0, 100 - D)

-----------------------------------------------------------------------------
(* Properties of the validator's calls, of the names and values the pipeline   *)
(* emits, and of the mapping store                                             *)

(* C21: batch_validate (and the validate_mapping it calls for each entry)      *)
(* never raises: for every list of entries, entries with missing keys, an      *)
(* empty or null canonical name or an unknown group included, it returns one   *)
(* outcome per entry, each with a score, issues, warnings, suggestions and a   *)
(* tier.                                                                       *)
C21_NeverRaises ==
    bv.called =>
        /\ ~bv.result.raised
        /\ Len(bv.result.results) = Len(bv.mappings)
        /\ \A i \in 1..Len(bv.result.results) :
              {"overall_score", "issues", "warnings", "suggestions", "quality_level"}
                  \subseteq DOMAIN bv.result.results[i]

(* the groups of the data model                                                *)
DataModelGroups ==
    {"finance", "organization", "vehicle", "product", "customer", "general", "time", "flag",
     "policy"}

(* a call of validate_mapping that returned, by itself or for an entry of a    *)
(* list: the entry and the outcome                                             *)
Validated ==
    (IF vm.called THEN {[mapping |-> vm.mapping, result |-> vm.result]} ELSE {})
    \cup (IF bv.called /\ ~bv.result.raised
          THEN {[mapping |-> bv.mappings[i], result |-> bv.result.results[i]] :
                    i \in 1..Len(bv.mappings)}
          ELSE {})

(* the outcome holds the warning of the group check *)
GroupWarned(result) == \E i \in 1..Len(result.warnings) : result.warnings[i].check = "group"

NameChar(c) ==
    \/ \E i \in 1..26 : SubSeq(LowerAlpha, i, i) = c
    \/ \E i \in 1..10 : SubSeq("0123456789", i, i) = c
    \/ c = "_"

(* the rules of the data model for a canonical name *)
WellFormedName(s) ==
    /\ Len(s) >= 1
    /\ \A i \in 1..Len(s) : NameChar(SubSeq(s, i, i))
    /\ ~StrStartsWith(s, "_")
    /\ ~StrEndsWith(s, "_")
    /\ ~StrContains(s, "__")
    /\ Len(s) <= MaxNameLen

(* C23: every canonical name the pipeline emits, from analyze_field and in the *)
(* entries of build_field_mapping after the uniqueness suffix, is non-empty,   *)
(* made of lowercase ASCII letters, digits and underscores, without a leading, *)
(* trailing or doubled underscore, and at most 50 characters long.             *)
C23_NamesWellFormed ==
    /\ pc \in {"built", "done"} =>
          \A i \in 1..Len(field_map) : WellFormedName(field_map[i].field_name)
    /\ (af.called /\ af.op = "analyze_field") => WellFormedName(af.result.en_name)


(* C24: every entry the classifier emits, whatever the field name and the      *)
(* column dtype are, has a group of the data model's enumeration, a kind among *)
(* string, number, datetime and boolean, a role among measure and dimension    *)
(* and an aggregation among sum, avg and none.                                 *)
C24_ValuesInEnumerations ==
    /\ pc \in {"built", "done"} =>
          \A i \in 1..Len(field_map) :
              /\ field_map[i].group \in DataModelGroups
              /\ field_map[i].dtype \in {"string", "number", "datetime", "boolean"}
              /\ field_map[i].role \in {"measure", "dimension"}
              /\ field_map[i].aggregation \in {"sum", "avg", "none"}
    /\ (af.called /\ af.op = "analyze_field") =>
          /\ af.result.group \in DataModelGroups
          /\ af.result.dtype \in {"string", "number", "datetime", "boolean"}

(* the store merged from the well-formed files alone, in their order: a file   *)
(* is well-formed when it is JSON text whose mapping entries have the fields   *)
(* en_name and dtype (group is optional in the store)                          *)
RECURSIVE MergeWellFormed(_, _)
MergeWellFormed(acc, fs) ==
    IF Len(fs) = 0 THEN acc
    ELSE MergeWellFormed(IF /\ Parses(fs[1])
                            /\ \A i \in 1..Len(fs[1].config.mappings) :
                                  {"en_name", "dtype"} \subseteq
                                      DOMAIN fs[1].config.mappings[i].val
                         THEN DictUpdate(acc, fs[1].config.mappings)
                         ELSE acc,
                         Tail(fs))

(* C25: a mapping file that is unreadable or malformed (no JSON, or entries    *)
(* lacking required fields) is skipped and never aborts start-up: the          *)
(* construction of the manager and of ExcelAnalyzer completes, and the store   *)
(* merged at construction holds exactly the mappings of the well-formed files. *)
C25_MalformedFileSkipped ==
    /\ pc \in {"ready", "aborted"} => combined_mappings = MergeWellFormed(<<>>, files)
    /\ [](pc # "aborted")
    /\ [][NewAnalyzer => combined_mappings' = MergeWellFormed(<<>>, files')]_vars

(* C26: when the write of the store fails during batch_learn_fields, the       *)
(* failure is reported to the caller, the merged store in memory is left       *)
(* without the mappings whose write failed, and the classification produced    *)
(* for the batch before the learning (the entries and the unknown fields of    *)
(* build_field_mapping) is available to the caller.                            *)
C26_ClassificationSurvivesFailedLearn ==
    pc = "failed" =>
        /\ ~AnalyzeExcelOutcome.success
        /\ combined_mappings = first_store
        /\ \A i \in 1..Len(unknown_fields) : DictIndex(combined_mappings, unknown_fields[i]) = 0
        /\ AnalyzeExcelOutcome.json = <<first_map>>
        /\ AnalyzeExcelOutcome.unknown_fields = <<unknown_fields>>

(* the keys add_custom_mapping has recorded in the learn_history of            *)
(* custom.json, and the entry custom.json holds for a key                      *)
LearnedKeys(fs) ==
    IF CustomIndex(fs) = 0 THEN {}
    ELSE {fs[CustomIndex(fs)].config.learn_history[i].cn_field :
              i \in 1..Len(fs[CustomIndex(fs)].config.learn_history)}

CustomEntry(fs, k) ==
    LET mappings == fs[CustomIndex(fs)].config.mappings
    IN  mappings[DictIndex(mappings, k)].val

(* the files glob yields after custom.json that parse and hold the key k *)
LaterFilesWith(fs, k) ==
    {i \in (CustomIndex(fs) + 1)..Len(fs) :
        Parses(fs[i]) /\ DictIndex(fs[i].config.mappings, k) # 0}

(* what a manager constructed on the directory returns for a learned key k:    *)
(* the entry of the last file that holds k                                     *)
ReloadedEntry(fs, k) ==
    IF LaterFilesWith(fs, k) = {} THEN CustomEntry(fs, k)
    ELSE LET i == CHOOSE i \in LaterFilesWith(fs, k) : \A j \in LaterFilesWith(fs, k) : j <= i
         IN  fs[i].config.mappings[DictIndex(fs[i].config.mappings, k)].val

(* no learned key leaves custom.json or the merged store in a step *)
LearnedKeysKept ==
    \A k \in LearnedKeys(files) :
        /\ k \in LearnedKeys(files')
        /\ DictIndex(files'[CustomIndex(files')].config.mappings, k) # 0
        /\ DictIndex(combined_mappings', k) # 0

(* C27 as stated: after add_custom_mapping(k, e) succeeded, the exact lookup   *)
(* of k returns e, in the manager that added it and in every manager           *)
(* constructed later on the same directory; no learned key is removed from     *)
(* custom.json or from the merged store.                                       *)
C27_LearnedEntryAuthoritative ==
    /\ [](\A k \in LearnedKeys(files) :
              get_mapping(combined_mappings, k) = <<CustomEntry(files, k)>>)
    /\ [][LearnedKeysKept]_vars

(* C27, amended: after add_custom_mapping(k, e) succeeded, the exact lookup of *)
(* k returns e in the manager that added it; a manager constructed later on    *)
(* the same directory returns e unless a file that glob yields after           *)
(* custom.json holds k, and then it returns the entry of the last such file;   *)
(* no learned key is removed from custom.json or from the merged store.        *)
C27_LearnedEntryUnlessOverridden ==
    /\ [](\A k \in LearnedKeys(files) :
              get_mapping(combined_mappings, k)
                  \in {<<CustomEntry(files, k)>>, <<ReloadedEntry(files, k)>>})
    /\ [][AddCustom =>
              \A k \in LearnedKeys(files') \ LearnedKeys(files) :
                  get_mapping(combined_mappings', k) = <<CustomEntry(files', k)>>]_vars
    /\ [][NewAnalyzer =>
              \A k \in LearnedKeys(files) :
                  get_mapping(combined_mappings', k) = <<ReloadedEntry(files, k)>>]_vars
    /\ [][LearnedKeysKept]_vars

(* C27 is exercised: a manager constructed after the learning returns, for a   *)
(* learned key, the entry of a file that glob yields after custom.json         *)
C27_OverriddenAfterReload ==
    /\ pc = "ready"
    /\ \E k \in LearnedKeys(files) :
          /\ LaterFilesWith(files, k) # {}
          /\ get_mapping(combined_mappings, k) = <<ReloadedEntry(files, k)>>
          /\ get_mapping(combined_mappings, k) # <<CustomEntry(files, k)>>

(* re.match(r'^[a-z][a-z0-9_]*$', en_name) *)
SnakeCase(s) ==
    /\ Len(s) >= 1
    /\ \E i \in 1..26 : SubSeq(LowerAlpha, i, i) = SubSeq(s, 1, 1)
    /\ \A i \in 2..Len(s) : NameChar(SubSeq(s, i, i))

(* C28: for each field name of the test table, analyze_field answers from the  *)
(* exact table, whatever the samples are: the group and the kind are the ones  *)
(* the table expects, the canonical name matches ^[a-z][a-z0-9_]*$ and holds   *)
(* none of _yuan, _rmb, _percent.                                              *)
C28_TestTableByExactLookup ==
    (af.called /\ af.op = "analyze_field") =>
        \A tc \in test_cases :
            tc.field_name = af.field_name =>
                /\ af.result.description = <<af.field_name, " (exact match)">>
                /\ af.result.group = tc.group
                /\ af.result.dtype = tc.dtype
                /\ SnakeCase(af.result.en_name)
                /\ \A suffix \in {"_yuan", "_rmb", "_percent"} : ~StrContains(af.result.en_name, suffix)

(* C28 is exercised: 签单保费 with numeric samples is written_premium, finance, *)
(* number                                                                      *)
C28_WrittenPremium ==
    /\ af.called /\ af.op = "analyze_field"
    /\ af.field_name = <<31614, 21333, 20445, 36153>>
    /\ af.sample_values = NumberSamples
    /\ af.result.en_name = "written_premium"
    /\ af.result.group = "finance"
    /\ af.result.dtype = "number"


(* C29: once add_custom_mapping has succeeded on the analyzer's mapping        *)
(* manager, the phrase dictionary of the analyzer's tokenizer holds the        *)
(* learned phrase: the tokenizer view is the phrase dictionary of the store    *)
(* the exact lookup reads, and a classification made then is the one that      *)
(* dictionary gives.                                                           *)
C29_TokenizerSeesLearned ==
    (pc \in {"ready", "built", "learned", "done", "failed"} /\ writable) =>
        /\ phrase_to_token = get_phrase_to_token_dict(combined_mappings)
        /\ pc = "built" =>
               first_map = build_field_mapping(combined_mappings,
                               get_phrase_to_token_dict(combined_mappings),
                               sheet_summary).mapping

(* C30: no entry build_field_mapping emits makes validate_mapping report a     *)
(* role or aggregation finding: an entry whose name holds a rating or          *)
(* coefficient keyword is never measure with sum, a number entry whose name    *)
(* holds a ratio, rate, discount or coefficient keyword never has sum, and a   *)
(* measure whose name holds a currency keyword always has sum.                 *)
C30_NoRoleAggregationFinding ==
    pc \in {"built", "done"} =>
        \A i \in 1..Len(field_map) :
            LET e == field_map[i]
            IN  /\ ~RatedAsSum(e.cn_name, e.role, e.aggregation)
                /\ ~RatioAsSum(e.cn_name, e.dtype, e.aggregation)
                /\ ~CurrencyNotSum(e.cn_name, e.role, e.aggregation)

=============================================================================
